---- MODULE Spec2Model ----
(***************************************************************************)
(* Upload pipeline of p115/component/client.py (blocking mode):            *)
(*   upload_file -> upload_file_init -> _oss_upload | _oss_multipart_upload *)
(* One action per backend request; local work done between two requests    *)
(* belongs to the action of the request that follows it.                   *)
(***************************************************************************)
EXTENDS Integers, Sequences, FiniteSets, TLC

\* ------------------------------------------------------------------ bounds
MaxLen == 6          \* largest source length in bytes
MaxPos == 1          \* largest start position of a reader
MaxPartSize == 2     \* largest part_size
MaxListed == 2       \* largest number of parts (and part number) in a listing

MaxCallers == 2          \* threads calling readdir of the FUSE adapter
MaxCalls == 2            \* readdir calls made by those threads altogether
MaxTasks == 2            \* readdir tasks handed to the executor
MaxReaders == 2          \* threads calling read of the FUSE adapter
MaxReads == 2            \* read calls made by those threads altogether
MaxSize == 2             \* largest size argument of read
MaxFile == 3             \* largest content of the file behind the handle
CacheBytes == 1          \* bytes read ahead by _open (2048 in fuser.py, scaled down)

\* --------------------------------------------------------- program constants
MB == 1048576            \* 1 << 20
STATUS_MATCHED == 2
STATUS_NEEDS_UPLOAD == 1
STATUS_RANGE == 7
STATUSCODE_RANGE == 701

\* upload ids: None, the one handed in by the caller, the one the init request returns
NO_ID == "None"
SUPPLIED_ID == "supplied"
FRESH_ID == "fresh"

VARIABLES
    entry,            \* which call is modelled: "upload_file" | "_oss_multipart_upload"
                      \* | "_oss_multipart_part_iter" | "_oss_multipart_upload_cancel"
    async_,           \* request_kwargs["async_"]: the call runs as a coroutine
    file,             \* the source: [kind, seekable, sized, len, pos]
    curpos,           \* position of the reader when the call started
    filesize,         \* declared / inferred size (-1 = not given)
    file_sha1,        \* "none" | "str" | "callable"
    read_range,       \* read_range_bytes_or_hash: "None" | "bytes" | "reader"
    part_size,
    upload_directly,
    token,            \* TRUE when an object-storage token is at hand
    upload_id,
    listing,          \* parts the backend lists for the supplied upload id
    pc,               \* position of the call
    negLog,           \* negotiation requests issued: <<[sign |-> BOOLEAN], ...>>
    resps,            \* negotiation responses received
    rangeReads,       \* challenged ranges read from the source
    oss,              \* object-storage requests issued
    parts,            \* the parts list of _oss_multipart_upload
    part_number,      \* the counter of _oss_multipart_upload_part_iter
    skipped,          \* bytes skipped on resume
    uploaded,         \* bytes put into part bodies
    inflight,         \* part uploads issued and not yet answered
    listed,           \* answer to the listing request: "none" | "ok" | "failed"
    page_len,         \* most parts the backend puts in one page of the listing
    marker,           \* params["part-number-marker"] of the listing (0: not set)
    outcome,          \* "running" | "ok" | the exception raised
    result            \* the value returned or the payload of the exception

\* A job poller: ExportDirStatus, PushExtractProgress or ExtractProgress.
VARIABLES
    cls,              \* the poller class
    bound,            \* which of the names Thread and sleep resolve in client.py
    future,           \* the Future part: [state, result, exception]
    progress,         \* self.status (ExportDirStatus) or self.progress
    cpc,              \* the caller: "new" | "has" (holds the poller) | "lost" (__init__ raised)
                      \* | "dropped" (gave its reference up) | "finalized" (__del__ has run)
    subm,             \* responses to the submission of extract_push_future (at most one)
    dropAt,           \* value of reqs when the caller dropped a Running poller, -1 before
    lpc,              \* the thread of update_progress: "none" | "test" | "call" | "wait" | "sleep" | "exit" | "died"
    threads,          \* threads started by _run_check
    reqs,             \* status requests begun
    sreq,             \* status requests in flight
    handled,          \* status responses handled: <<[resp, running], ...>>
    stops,            \* calls of stop()
    stopAt,           \* value of reqs when stop() cancelled the poller, -1 before
    stop_error,       \* what each call of stop() raised, "none" if nothing
    waiter            \* a thread in result(): "idle" | "blocked" | what it got

pvars == <<cls, bound, dropAt, subm, future, progress, cpc, lpc, threads, reqs, sreq, handled,
           stops, stopAt, stop_error, waiter>>

\* Calls of _oss_upload_sign.
VARIABLES
    calls,            \* the arguments of the calls, with the clock reading of each
    signed            \* what the calls made so far returned

svars == <<calls, signed>>

\* The signer part of a state in which no signing call is modelled.
SignIdle == calls = <<>> /\ signed = <<>>

\* The digest of a source on its way into the first negotiation request
\* (upload_file up to upload_file_init), with the bytes of the source.
VARIABLES
    dfile,            \* the source: [kind, bytes, pos, seekable]
    dsize,            \* filesize: declared / inferred (-1 = not given)
    dsha1,            \* file_sha1: [state, given, of, case]
    dpc,              \* "idle" | "start" | "init" | "done"
    dsent,            \* the sha1 fields of the negotiation requests sent
    dout              \* "running" | "sent" | "sample" | the exception raised

dvars == <<dfile, dsize, dsha1, dpc, dsent, dout>>

\* A hex digest as a value: the bytes that were hashed and the case of the
\* hex digits; a digest the caller passed in is not tied to any bytes.
Digest(given, of, case) == [state |-> "str", given |-> given, of |-> of, case |-> case]
NoDigest == [state |-> "none", given |-> FALSE, of |-> <<>>, case |-> "lower"]
LazyDigest == [state |-> "callable", given |-> FALSE, of |-> <<>>, case |-> "lower"]

\* The digest part of a state in which no digest is modelled.
DigestIdle ==
    /\ dfile = [kind |-> "bytes", bytes |-> <<>>, pos |-> 0, seekable |-> FALSE]
    /\ dsize = -1 /\ dsha1 = NoDigest /\ dpc = "idle" /\ dsent = <<>> /\ dout = "running"

\* The readdir wrapper of the FUSE adapter (fuser.py 58-93).
VARIABLES
    cooldown_on,      \* cooldown > 0: a cooldown_pool exists
    task_pool,        \* normalized path -> number of the task stored for it, 0 for none
    tasks,            \* the futures returned by submit, in order of submission
    lock,             \* the caller holding the Lock of the wrapper, 0 when free
    cooldown_pool,    \* paths read less than `cooldown` seconds ago
    cache,            \* paths whose listing is in self.cache
    wrapper,          \* per caller: position in the wrapper and its locals
    wcalls            \* calls of the wrapper begun

rvars == <<cooldown_on, task_pool, tasks, lock, cooldown_pool, cache, wrapper, wcalls>>

Callers == 1..MaxCallers

\* Paths as the kernel hands them in: one name in its composed and in its
\* decomposed spelling, and another name.
RawPaths == {"/cafe(NFC)", "/cafe(NFD)", "/docs"}

\* fuser.py 71: normalize("NFC", path) turns the decomposed spelling into the
\* composed one and leaves composed text alone.
normalize(path) == IF path = "/cafe(NFD)" THEN "/cafe(NFC)" ELSE path

NormPaths == {normalize(path) : path \in RawPaths}

Frame(at, raw, path, hit, fut) ==
    [pc |-> at, raw |-> raw, path |-> path, hit |-> hit, future |-> fut]

\* The readdir part of a state in which no readdir is modelled.
ReaddirIdle ==
    /\ cooldown_on = FALSE /\ task_pool = [path \in RawPaths |-> 0] /\ tasks = <<>>
    /\ lock = 0 /\ cooldown_pool = {} /\ cache = {}
    /\ wrapper = [c \in Callers |-> Frame("off", "", "", FALSE, 0)]
    /\ wcalls = 0

\* read, release and close of the FUSE adapter (fuser.py 141-153, 230-269,
\* 346-362).
VARIABLES
    fkind,            \* the entry read: "strm" (attr["_data"] is set) | "file"
    flen,             \* length of its content
    fh_to_file,       \* self._fh_to_file: handle -> (file, preread), if present
    rfiles,           \* the remote file objects opened so far
    reader,           \* per reading thread: position in read and its locals
    released,         \* handles for which release has completed
    closed_all,       \* close() has completed
    nreads            \* calls of read begun

fuvars == <<fkind, flen, fh_to_file, rfiles, reader, released, closed_all, nreads>>

Readers == 1..MaxReaders

\* Handles given out by open (fuser.py 132, 228: count(1)); 0 is no handle.
Handles == {1}

\* An entry of self._fh_to_file; file is 0 for None, else the number of the
\* remote file object.
Entry(present, f, preread) == [present |-> present, file |-> f, preread |-> preread]
NoEntry == Entry(FALSE, 0, <<>>)

\* What a call of read ends with: the bytes returned, or OSError(EIO).
Returned(bytes) == [raised |-> FALSE, bytes |-> bytes]
EIO == [raised |-> TRUE, bytes |-> <<>>]

ReadFrame(at, fh, size, offset, f, preread, ret) ==
    [pc |-> at, fh |-> fh, size |-> size, offset |-> offset, file |-> f,
     preread |-> preread, ret |-> ret]

\* The read part of a state in which no read is modelled.
FuseIdle ==
    /\ fkind = "none" /\ flen = 0
    /\ fh_to_file = [fh \in Handles |-> NoEntry]
    /\ rfiles = <<>>
    /\ reader = [r \in Readers |-> ReadFrame("off", 0, 0, 0, 0, <<>>, Returned(<<>>))]
    /\ released = {} /\ closed_all = FALSE /\ nreads = 0

vars == <<fuvars, rvars, entry, async_, file, curpos, filesize, file_sha1, read_range, part_size,
          upload_directly, token, upload_id, listing, pc, negLog, resps,
          rangeReads, oss, parts, part_number, skipped, uploaded, inflight,
          listed, page_len, marker, outcome, result, pvars, svars, dvars>>

inputs == <<entry, async_, curpos, part_size, upload_directly, listing, page_len>>

NoValue == "None"
\* Future._result holds nothing (<<>>) or the data of one response.
NoData == <<>>
NewFuture == [state |-> "PENDING", result |-> NoData, exception |-> NoValue]

\* The poller part of a state in which no poller is modelled.
PollerIdle ==
    /\ cls = "none" /\ bound = {} /\ future = NewFuture /\ progress = 0 /\ dropAt = -1 /\ subm = <<>>
    /\ cpc = "none" /\ lpc = "none" /\ threads = 0 /\ reqs = 0 /\ sreq = 0
    /\ handled = <<>> /\ stops = 0 /\ stopAt = -1 /\ stop_error = <<>>
    /\ waiter = "idle"

Min(a, b) == IF a < b THEN a ELSE b
Max(a, b) == IF a > b THEN a ELSE b

NoResult == [status |-> -1, statuscode |-> -1, pickcode |-> FALSE, sign_check |-> <<0, 0>>]

\* --------------------------------------------------------------- responses
\* Shapes of the answer of the fast-upload endpoint.  The two success shapes
\* carry the keys the success path reads (pickcode, bucket, object, callback).
Ranges == {<<0, 0>>, <<1, 2>>}

Responses ==
    {[status |-> STATUS_MATCHED, statuscode |-> 0, pickcode |-> TRUE, sign_check |-> <<0, 0>>],
     [status |-> STATUS_NEEDS_UPLOAD, statuscode |-> 0, pickcode |-> TRUE, sign_check |-> <<0, 0>>]}
    \cup [status : {STATUS_RANGE}, statuscode : {STATUSCODE_RANGE}, pickcode : BOOLEAN, sign_check : Ranges]
    \cup [status : {0, STATUS_MATCHED, STATUS_RANGE}, statuscode : {402}, pickcode : BOOLEAN, sign_check : {<<0, 0>>}]

\* A request in the log; ans is "pending" until the request is answered
\* ("ok") or raises ("failed").
Request(op, id, n, size, manifest) ==
    [op |-> op, id |-> id, n |-> n, size |-> size, manifest |-> manifest, ans |-> "pending"]

Answered(q, ok) == [q EXCEPT !.ans = IF ok THEN "ok" ELSE "failed"]

\* ------------------------------------------------------------ pure helpers
RECURSIVE SumSizes(_)
SumSizes(ps) == IF ps = <<>> THEN 0 ELSE Head(ps).Size + SumSizes(Tail(ps))

\* Faulty variants of takewhile: a filter that keeps every full-size part, and a
\* takewhile that also keeps the part it stops at.
TakeWhileFull_filter(ps, size) == SelectSeq(ps, LAMBDA p : p.Size = size)

RECURSIVE TakeWhileFull_inclusive(_, _)
TakeWhileFull_inclusive(ps, size) ==
    IF ps = <<>> THEN <<>>
    ELSE IF Head(ps).Size # size THEN <<Head(ps)>>
    ELSE <<Head(ps)>> \o TakeWhileFull_inclusive(Tail(ps), size)

\* Faulty variant: every listed part is accepted, whatever its size.
TakeWhileFull_all(ps, size) == ps

\* itertools.takewhile(lambda p: p["Size"] == part_size, listing)
RECURSIVE TakeWhileFull(_, _)
TakeWhileFull(ps, size) ==
    IF ps = <<>> \/ Head(ps).Size # size THEN <<>>
    ELSE <<Head(ps)>> \o TakeWhileFull(Tail(ps), size)

\* Position of the source after skipping skipsize bytes on resume.
SkipTo(f, skipsize) ==
    IF f.kind = "bytes" THEN Min(f.len, f.pos + skipsize)         \* memoryview(file)[skipsize:]
    ELSE IF f.seekable THEN skipsize                               \* file.seek(skipsize)
    ELSE Min(f.len, f.pos + skipsize)                              \* through(bio_skip_iter(file, skipsize))

\* Bytes one part upload takes from a reader (bio_chunk_iter(file, part_size)).
PartBytes(f, size) == Min(size, Max(0, f.len - f.pos))

\* Faulty variant: the loop also ends after a part of exactly part_size bytes.
LoopEnds_orEqual(part, size) == part.Size <= size

\* The part loop ends after a part shorter than part_size.
LoopEnds(part, size) == part.Size < size

\* ---------------------------------------------------------------- raising
Raise(exc, payload) ==
    /\ outcome' = exc
    /\ result' = payload
    /\ pc' = "done"

Return(value) ==
    /\ outcome' = "ok"
    /\ result' = value
    /\ pc' = "done"

\* ------------------------------------------------------------------- Init
Files ==
    {f \in [kind : {"bytes", "reader"}, seekable : BOOLEAN, sized : BOOLEAN,
            len : 0..MaxLen, pos : 0..MaxPos] :
        /\ f.pos <= f.len
        /\ f.kind = "bytes" => (~f.seekable /\ f.sized /\ f.pos = 0)
        /\ (f.kind = "reader" /\ ~f.seekable) => f.pos = 0}

\* Numbers of parts the backend may put in one page of a listing.
PageLens == {1, 2}

ListedParts(size) == [PartNumber : 1..MaxListed, Size : {size - 1, size}]

Listings(size) ==
    UNION {[1..n -> ListedParts(size)] : n \in 0..MaxListed}

\* Sizes a caller may declare (-1: not given).
FileSizes == {-1, 0, 1, MB - 1, MB, MB + 1}

InitUploadFile ==
    /\ entry = "upload_file"
    /\ async_ \in BOOLEAN
    /\ file \in Files
    /\ filesize \in FileSizes
    /\ file_sha1 \in {"none", "str"}
    /\ read_range = "None"
    /\ upload_directly \in BOOLEAN
    /\ part_size \in -1..MaxPartSize
    /\ token = FALSE
    /\ upload_id = NO_ID
    /\ listing = <<>> /\ page_len = 1
    /\ pc = "start"

InitMultipart ==
    /\ entry = "_oss_multipart_upload"
    /\ async_ = FALSE
    /\ file \in Files
    /\ filesize = -1 /\ file_sha1 = "none" /\ read_range = "None"
    /\ upload_directly = FALSE
    /\ part_size \in 1..MaxPartSize
    /\ token \in BOOLEAN
    /\ upload_id \in {NO_ID, SUPPLIED_ID}
    /\ listing \in IF upload_id = NO_ID THEN {<<>>} ELSE Listings(part_size)
    /\ page_len \in IF upload_id = NO_ID THEN {1} ELSE PageLens
    /\ pc = "mp_start"

\* client.py 2483-2492: the listing iterator takes the token and the upload id
\* from its caller; the caller modelled here takes every part it yields.
InitPartIter ==
    /\ entry = "_oss_multipart_part_iter"
    /\ async_ = FALSE
    /\ file = [kind |-> "bytes", seekable |-> FALSE, sized |-> TRUE, len |-> 0, pos |-> 0]
    /\ filesize = -1 /\ file_sha1 = "none" /\ read_range = "None"
    /\ upload_directly = FALSE
    /\ part_size \in 1..MaxPartSize
    /\ token = TRUE
    /\ upload_id = SUPPLIED_ID
    /\ listing \in Listings(part_size)
    /\ page_len \in PageLens
    /\ pc = "mp_list"

\* client.py 2391-2400: the cancel helper takes the token and the upload id
\* from its caller and no source.
InitCancel ==
    /\ entry = "_oss_multipart_upload_cancel"
    /\ async_ = FALSE
    /\ file = [kind |-> "bytes", seekable |-> FALSE, sized |-> TRUE, len |-> 0, pos |-> 0]
    /\ filesize = -1 /\ file_sha1 = "none" /\ read_range = "None"
    /\ upload_directly = FALSE
    /\ part_size = 1
    /\ token = TRUE
    /\ upload_id = SUPPLIED_ID
    /\ listing = <<>> /\ page_len = 1
    /\ pc = "cancel"

Init ==
    /\ (InitUploadFile \/ InitMultipart \/ InitPartIter \/ InitCancel)
    /\ PollerIdle
    /\ SignIdle
    /\ DigestIdle
    /\ ReaddirIdle
    /\ FuseIdle
    /\ curpos = file.pos
    /\ negLog = <<>> /\ resps = <<>> /\ rangeReads = <<>>
    /\ oss = <<>> /\ parts = <<>> /\ part_number = 0
    /\ skipped = 0 /\ uploaded = 0 /\ inflight = 0 /\ listed = "none"
    /\ marker = 0
    /\ outcome = "running" /\ result = NoResult

\* ------------------------------------------------- _oss_multipart_upload
\* Faulty variant: a new session is requested even when an upload id was passed.
AfterToken_alwaysInit(id) == "mp_init"

\* client.py 2680 and 2694: `if upload_id:` lists the parts of the session
\* passed in, the else branch requests a new session.
AfterToken(id) == IF id # NO_ID THEN "mp_list" ELSE "mp_init"

\* client.py 2678-2679: fetch a token when none was passed.
MultipartToken ==
    /\ pc = "mp_start"
    /\ \E ok \in BOOLEAN :
        IF token
        THEN /\ ok
             /\ pc' = AfterToken(upload_id)
             /\ UNCHANGED <<token, oss, outcome, result>>
        ELSE /\ oss' = Append(oss, Answered(Request("token", NO_ID, 0, 0, <<>>), ok))
             /\ IF ok
                THEN /\ token' = TRUE
                     /\ pc' = AfterToken(upload_id)
                     /\ UNCHANGED <<outcome, result>>
                ELSE /\ Raise("transport", NoResult)
                     /\ UNCHANGED token
    /\ UNCHANGED <<fuvars, rvars, dvars, svars, pvars, inputs, marker, inflight, listed, file, filesize, file_sha1, read_range, upload_id,
                   negLog, resps, rangeReads, parts, part_number, skipped, uploaded>>

\* Faulty variant: a failed listing is taken for an empty one.
ListParts_swallow(ok, lst) == [raised |-> FALSE, listed |-> IF ok THEN lst ELSE <<>>]

\* client.py 2518-2532 consumed at 2681-2684: the listing request either
\* yields the listed parts or raises; nothing between the request and
\* parts.extend catches the exception.
ListParts(ok, lst) == [raised |-> ~ok, listed |-> IF ok THEN lst ELSE <<>>]

\* The backend's answer to GET ?uploadId=<id>[&part-number-marker=<m>]: the
\* parts of the session that follow the marker, page_len of them at most.
Page(m) == SubSeq(listing, m + 1, Min(m + page_len, Len(listing)))
IsTruncated(m) == IF m + page_len < Len(listing) THEN "true" ELSE "false"
NextPartNumberMarker(m) == m + Len(Page(m))

\* Faulty variant: the marker of the page is never put into the parameters.
PartNumberMarker_unset(m, next) == m

\* client.py 2532: params["part-number-marker"] =
\*     etree.find("NextPartNumberMarker").text
PartNumberMarker(m, next) == next

\* client.py 2530-2531: `if etree.find("IsTruncated").text == "false": break`
LastPage(text) == text = "false"

\* What the consumer takes of a page: takewhile at client.py 2681 stops at
\* the first part whose Size is not part_size, a plain loop takes every part.
Consumed(page) ==
    IF entry = "_oss_multipart_part_iter" THEN page ELSE TakeWhileFull(page, part_size)

\* client.py 2518-2532 driven by 2680-2684: one round of the iterator's loop.
\* It requests the page behind the marker and yields its parts; the iterator
\* is over when the consumer stops taking parts or the page is the last one,
\* otherwise the marker is set for the next round.  After the last round
\* _oss_multipart_upload skips the bytes of the accepted parts (2685-2693).
MultipartResume ==
    /\ pc = "mp_list"
    /\ \E ok \in BOOLEAN :
        LET page     == ListParts(ok, Page(marker)).listed
            accepted == parts \o Consumed(page)
            over     == Len(Consumed(page)) < Len(page) \/ LastPage(IsTruncated(marker))
            skipsize == SumSizes(accepted)
        IN /\ oss' = Append(oss, Answered(Request("list", upload_id, marker, 0, <<>>), ok))
           /\ listed' = IF ~ok THEN "failed" ELSE IF over THEN "ok" ELSE listed
           /\ IF ListParts(ok, Page(marker)).raised
              THEN /\ Raise("transport", NoResult)
                   /\ UNCHANGED <<parts, file, skipped, part_number, marker>>
              ELSE /\ parts' = accepted
                   /\ IF ~over
                      THEN /\ marker' = PartNumberMarker(marker, NextPartNumberMarker(marker))
                           /\ UNCHANGED <<pc, file, skipped, part_number, outcome, result>>
                      ELSE /\ UNCHANGED marker
                           /\ IF entry = "_oss_multipart_part_iter"
                              THEN /\ Return(NoResult)
                                   /\ UNCHANGED <<file, skipped, part_number>>
                              ELSE /\ file' = IF skipsize # 0 THEN [file EXCEPT !.pos = SkipTo(file, skipsize)] ELSE file
                                   /\ skipped' = IF skipsize # 0 THEN SkipTo(file, skipsize) - file.pos ELSE 0
                                   /\ part_number' = Len(accepted) + 1
                                   /\ pc' = "mp_parts"
                                   /\ UNCHANGED <<outcome, result>>
    /\ UNCHANGED <<fuvars, rvars, dvars, svars, pvars, inputs, inflight, filesize, file_sha1, read_range, token, upload_id,
                   negLog, resps, rangeReads, uploaded>>

\* client.py 2694-2696: no upload id was passed, ask the backend for one.
MultipartInitMode(a) ==
    /\ pc = "mp_init"
    /\ \E ok \in BOOLEAN :
        /\ oss' = Append(oss, Answered(Request("init", NO_ID, 0, 0, <<>>), ok))
        /\ IF ~ok
           THEN /\ Raise("transport", NoResult)
                /\ UNCHANGED <<upload_id, part_number>>
           ELSE /\ upload_id' = FRESH_ID
                /\ IF a
                   THEN \* 2651-2652: async_request assigns file (2641, 2650)
                        \* without declaring it nonlocal, so the name is a
                        \* local of the coroutine that has no value here.
                        /\ Raise("UnboundLocalError", NoResult)
                        /\ UNCHANGED part_number
                   ELSE /\ part_number' = Len(parts) + 1
                        /\ pc' = "mp_parts"
                        /\ UNCHANGED <<outcome, result>>
    /\ UNCHANGED <<fuvars, rvars, dvars, svars, pvars, inputs, marker, inflight, listed, file, filesize, file_sha1, read_range, token,
                   negLog, resps, rangeReads, parts, skipped, uploaded>>

\* client.py 2625-2626: the branch of _oss_multipart_upload is chosen by async_.
MultipartInit == MultipartInitMode(async_)

\* Faulty variant: the loop issues the next part without waiting for the answer.
AwaitPart_pipelined == "mp_parts"

\* client.py 2467-2477: the call of _oss_multipart_upload_part returns only
\* when the request has been answered, so the loop waits there.
AwaitPart == "mp_part_wait"

\* client.py 2465-2477 with 2313-2355: the loop issues one part upload, whose
\* body is the next part_size bytes of the source (2323-2333).  A bytes source
\* has been turned into an iterator of chunks (2438), so the part upload takes
\* the iterator branch (2334-2347).
MultipartUploadPart ==
    /\ pc = "mp_parts"
    /\ oss' = Append(oss, Request("part", upload_id, part_number,
                                 IF file.kind = "bytes" THEN 0 ELSE PartBytes(file, part_size),
                                 <<>>))
    /\ inflight' = inflight + 1
    /\ pc' = AwaitPart
    /\ UNCHANGED <<fuvars, rvars, dvars, svars, pvars, inputs, marker, listed, file, filesize, file_sha1, read_range, token,
                   upload_id, negLog, resps, rangeReads, parts, part_number, skipped,
                   uploaded, outcome, result>>

\* Faulty variant: a part upload that raised is taken for an accepted part.
PartRaises_never(ok) == FALSE

\* client.py 2467-2477: an exception of _oss_multipart_upload_part leaves the
\* generator, parts.extend (2697) and _oss_multipart_upload.
PartRaises(ok) == ~ok

\* client.py 2304-2311 and 2478-2480: the part upload is answered (or fails),
\* the part is yielded to parts.extend and the loop tests its size.  While the
\* body of a bytes source is sent, the callback of the iterator branch
\* (2335-2339) reads count_in_bytes, which was never bound: NameError.
MultipartUploadPartResponse ==
    /\ pc = "mp_part_wait"
    /\ inflight' = inflight - 1
    /\ \E ok \in BOOLEAN :
        LET n == PartBytes(file, part_size)
            part == [PartNumber |-> part_number, Size |-> n]
        IN IF file.kind = "bytes"
           THEN /\ ~ok
                /\ oss' = [oss EXCEPT ![Len(oss)] = Answered(@, FALSE)]
                /\ Raise("NameError", NoResult)
                /\ UNCHANGED <<file, parts, part_number, uploaded>>
           ELSE /\ file' = [file EXCEPT !.pos = file.pos + n]
                /\ uploaded' = uploaded + n
                /\ oss' = [oss EXCEPT ![Len(oss)] = Answered(@, ok)]
                /\ IF ~PartRaises(ok)
                   THEN /\ parts' = Append(parts, part)
                        /\ part_number' = part_number + 1
                        /\ pc' = IF LoopEnds(part, part_size) THEN "mp_complete" ELSE "mp_parts"
                        /\ UNCHANGED <<outcome, result>>
                   ELSE /\ Raise("transport", NoResult)
                        /\ UNCHANGED <<parts, part_number>>
    /\ UNCHANGED <<fuvars, rvars, dvars, svars, pvars, inputs, marker, listed, filesize, file_sha1, read_range, token, upload_id,
                   negLog, resps, rangeReads, skipped>>

\* client.py 2708-2717 with 2378-2381: send the manifest.
MultipartComplete ==
    /\ pc = "mp_complete"
    /\ \E ok \in BOOLEAN :
        /\ oss' = Append(oss, Answered(Request("complete", upload_id, 0, 0, parts), ok))
        /\ IF ok THEN Return(NoResult) ELSE Raise("transport", NoResult)
    /\ UNCHANGED <<fuvars, rvars, dvars, svars, pvars, inputs, marker, inflight, listed, file, filesize, file_sha1, read_range, token, upload_id,
                   negLog, resps, rangeReads, parts, part_number, skipped, uploaded>>

\* ------------------------------------------------------------ upload_file
\* Size upload_file infers for a reader (3359-3372): fstat / len, else seek to
\* the end, else 0.
InferredSize(f) ==
    IF f.sized \/ f.seekable THEN f.len - curpos ELSE 0

\* client.py 3076-3077 and 3318-3394: look at the source, fix filesize, the
\* digest and the range reader, then go to do_upload or to the direct upload.
\* Faulty variant: an in-memory buffer is negotiated even when the caller
\* asked for a direct upload.
UseSample_readersOnly(flag, f) == flag /\ f.kind # "bytes"

\* client.py 3076-3077: `if upload_directly: return self.upload_file_sample(...)`
\* is the first statement, before the source is looked at.
UseSample(flag, f) == flag

UploadFileMode(a) ==
    /\ pc = "start"
    /\ IF UseSample(upload_directly, file)
       THEN /\ pc' = "sample_init"
            /\ UNCHANGED <<file, filesize, file_sha1, read_range, outcome, result>>
       ELSE IF file.kind = "bytes"
       THEN LET size == IF filesize < 0 THEN file.len ELSE filesize
            IN /\ filesize' = size
               /\ file_sha1' = "str"
               /\ read_range' = IF size >= MB THEN "bytes" ELSE "None"
               /\ pc' = "init"
               /\ UNCHANGED <<file, outcome, result>>
       ELSE IF a
       THEN \* 3178-3185: ensure_async is not a name of the module; the
            \* NameError of the first use is caught with the seek probe, the
            \* one of `file_read = ensure_async(file.read)` is not.
            /\ Raise("NameError", NoResult)
            /\ UNCHANGED <<file, filesize, file_sha1, read_range>>
       ELSE LET size == IF filesize < 0 THEN InferredSize(file) ELSE filesize
            IN /\ filesize' = size
               /\ UNCHANGED <<outcome, result>>
               /\ IF 0 < size /\ size < MB
                  THEN /\ file' = [kind |-> "bytes", seekable |-> FALSE, sized |-> TRUE,
                                   len |-> file.len - file.pos, pos |-> 0]
                       /\ file_sha1' = "str"
                       /\ read_range' = "None"
                       /\ pc' = "init"
                  ELSE IF file_sha1 = "none" /\ ~file.seekable
                  THEN /\ pc' = "sample_init"
                       /\ UNCHANGED <<file, file_sha1, read_range>>
                  ELSE /\ file_sha1' = IF file_sha1 = "none" THEN "callable" ELSE file_sha1
                       /\ read_range' = "reader"
                       /\ pc' = "init"
                       /\ UNCHANGED file
    /\ UNCHANGED <<fuvars, rvars, dvars, svars, pvars, inputs, marker, inflight, listed, token, upload_id, negLog, resps, rangeReads, oss, parts,
                   part_number, skipped, uploaded>>

\* client.py 3079-3088: the branch of upload_file is chosen by async_.
UploadFile == UploadFileMode(async_)

\* client.py 2872: upload_file_sample asks for the upload form.
UploadFileSampleInit ==
    /\ pc = "sample_init"
    /\ \E ok \in BOOLEAN :
        /\ oss' = Append(oss, Answered(Request("sample_init", NO_ID, 0, 0, <<>>), ok))
        /\ IF ok THEN pc' = "sample" /\ UNCHANGED <<outcome, result>>
           ELSE Raise("transport", NoResult)
    /\ UNCHANGED <<fuvars, rvars, dvars, svars, pvars, inputs, marker, inflight, listed, file, filesize, file_sha1, read_range, token, upload_id,
                   negLog, resps, rangeReads, parts, part_number, skipped, uploaded>>

\* client.py 2873-2886: upload_file_sample posts the whole source.
UploadFileSample ==
    /\ pc = "sample"
    /\ \E ok \in BOOLEAN :
        /\ oss' = Append(oss, Answered(Request("sample", NO_ID, 0, 0, <<>>), ok))
        /\ IF ok THEN Return(NoResult) ELSE Raise("transport", NoResult)
    /\ UNCHANGED <<fuvars, rvars, dvars, svars, pvars, inputs, marker, inflight, listed, file, filesize, file_sha1, read_range, token, upload_id,
                   negLog, resps, rangeReads, parts, part_number, skipped, uploaded>>

\* ------------------------------------------------------- upload_file_init
\* Faulty variant: the two success statuses swapped.
IsMatched_swapped(r) == r.status = STATUS_NEEDS_UPLOAD /\ r.statuscode = 0

IsMatched(r) == r.status = STATUS_MATCHED /\ r.statuscode = 0          \* 3293
IsNeedsUpload(r) == r.status = STATUS_NEEDS_UPLOAD /\ r.statuscode = 0   \* 3295
IsChallenge(r) == r.status = STATUS_RANGE /\ r.statuscode = STATUSCODE_RANGE   \* 3031

\* client.py 2969-2970: the size guard of upload_file_init.
SizeGuardRaises(size) == size >= MB

\* Faulty variant: every range challenge is answered with another negotiation request.
AfterResponse_retry(n, r) ==
    IF r.status = STATUS_RANGE /\ r.statuscode = STATUSCODE_RANGE THEN "range" ELSE "init_done"

\* client.py 3031: only the answer to the first negotiation request is looked
\* at for a range challenge; n is the number of the request answered.
AfterResponse(n, r) == IF n = 1 /\ IsChallenge(r) THEN "range" ELSE "init_done"

\* file.seek(p) and file.read(n) of a reader, as far as the position goes.
Seek(f, p) == [f EXCEPT !.pos = p]
Read(f, n) == [f EXCEPT !.pos = IF f.pos >= f.len THEN f.pos ELSE Min(f.len, f.pos + n)]

\* Faulty variant: the digest leaves the reader where the read stopped.
DigestAndRestore_noRestore(f, n) == Read(f, n)

\* client.py 3381-3385: the lazy digest reads the reader (n bytes get read:
\* all that is left, or fewer when the read raises) and the finally clause
\* seeks back to curpos.
DigestAndRestore(f, n) == Seek(Read(f, n), curpos)

\* client.py 3386-3394: the range read seeks to the start of the range, reads
\* (n bytes get read), and the finally clause seeks back to curpos.
RangeRead(f, rng, n) == Seek(Read(Seek(f, rng[1]), n), curpos)

\* client.py 3020-3028: the first negotiation request.
FirstRequest ==
    /\ file_sha1' = "str"
    /\ negLog' = Append(negLog, [sign |-> FALSE])
    /\ \E ok \in BOOLEAN :
        IF ok
        THEN \E r \in Responses :
                /\ resps' = Append(resps, r)
                /\ pc' = AfterResponse(1, r)
                /\ UNCHANGED <<outcome, result>>
        ELSE /\ Raise("transport", NoResult)
             /\ UNCHANGED resps

\* client.py 2969-3028: size guard, lazy digest, first negotiation request.
UploadFileInit ==
    /\ pc = "init"
    /\ IF SizeGuardRaises(filesize)
       THEN /\ Raise("ValueError", NoResult)
            /\ UNCHANGED <<file, file_sha1, negLog, resps>>
       ELSE IF file_sha1 = "callable"
       THEN \E n \in 0..(file.len - file.pos), readok \in BOOLEAN :
               /\ readok => n = file.len - file.pos
               /\ file' = DigestAndRestore(file, n)
               /\ IF readok THEN FirstRequest
                  ELSE /\ Raise("read error", NoResult)
                       /\ UNCHANGED <<file_sha1, negLog, resps>>
       ELSE /\ FirstRequest
            /\ UNCHANGED file
    /\ UNCHANGED <<fuvars, rvars, dvars, svars, pvars, inputs, marker, inflight, listed, filesize, read_range, token, upload_id, rangeReads,
                   oss, parts, part_number, skipped, uploaded>>

\* The exception read_range_bytes_or_hash raises, or "none" (3034 with 3325-3327
\* and 3386-3394): None is not callable, the bytes reader names an unbound
\* variable, the reader's needs a seekable source.  The coroutine (2993)
\* wraps the callable with ensure_async, which is not a name of the module.
RangeReadErrorMode(a) ==
    IF a THEN "NameError"
    ELSE CASE read_range = "None" -> "TypeError"
           [] read_range = "bytes" -> "NameError"
           [] read_range = "reader" /\ ~file.seekable -> "TypeError"
           [] OTHER -> "none"

RangeReadError == RangeReadErrorMode(async_)

\* client.py 3031-3047: read the challenged range (the reader is put back at
\* curpos), then the second negotiation request with sign_key and sign_val.
UploadFileInitRangeProofMode(a) ==
    /\ pc = "range"
    /\ IF RangeReadErrorMode(a) # "none"
       THEN /\ Raise(RangeReadErrorMode(a), NoResult)
            /\ UNCHANGED <<file, rangeReads, negLog, resps>>
       ELSE LET rng == resps[Len(resps)].sign_check
            IN \E n \in 0..(rng[2] - rng[1] + 1), readok \in BOOLEAN :
                /\ readok => n = rng[2] - rng[1] + 1
                /\ file' = RangeRead(file, rng, n)
                /\ IF ~readok
                   THEN /\ Raise("read error", NoResult)
                        /\ UNCHANGED <<rangeReads, negLog, resps>>
                   ELSE /\ rangeReads' = Append(rangeReads, rng)
                        /\ negLog' = Append(negLog, [sign |-> TRUE])
                        /\ \E ok \in BOOLEAN :
                            IF ok
                            THEN \E r \in Responses :
                                    /\ resps' = Append(resps, r)
                                    /\ pc' = AfterResponse(Len(negLog) + 1, r)
                                    /\ UNCHANGED <<outcome, result>>
                            ELSE /\ Raise("transport", NoResult)
                                 /\ UNCHANGED resps
    /\ UNCHANGED <<fuvars, rvars, dvars, svars, pvars, inputs, marker, inflight, listed, filesize, file_sha1, read_range, token, upload_id,
                   oss, parts, part_number, skipped, uploaded>>

\* client.py 2972-2973: the branch of upload_file_init is chosen by async_.
UploadFileInitRangeProof == UploadFileInitRangeProofMode(async_)

\* Faulty variant: a source that fits into one part goes single-shot.
UploadPath_bySize(psize, size) == IF psize <= 0 \/ size <= psize THEN "oss_token" ELSE "mp_start"

\* client.py 3300-3316: _oss_upload for part_size <= 0, _oss_multipart_upload
\* otherwise; the size of the source is not looked at.
UploadPath(psize, size) == IF psize <= 0 THEN "oss_token" ELSE "mp_start"

\* client.py 3048-3056 then 3291-3316: upload_file_init fills resp["data"] from
\* resp["pickcode"] and returns; do_upload dispatches on the status.
DoUpload ==
    /\ pc = "init_done"
    /\ LET r == resps[Len(resps)]
       IN IF ~r.pickcode THEN Raise("KeyError", NoResult)
          ELSE IF IsMatched(r) THEN Return(r)
          ELSE IF IsNeedsUpload(r)
          THEN /\ pc' = UploadPath(part_size, filesize)
               /\ UNCHANGED <<outcome, result>>
          ELSE Raise("EINVAL", r)
    /\ UNCHANGED <<fuvars, rvars, dvars, svars, pvars, inputs, marker, inflight, listed, file, filesize, file_sha1, read_range, token, upload_id,
                   negLog, resps, rangeReads, oss, parts, part_number, skipped, uploaded>>

\* ------------------------------------------------------------ _oss_upload
\* client.py 2590-2591: the single-shot path fetches a token.
OssUploadToken ==
    /\ pc = "oss_token"
    /\ \E ok \in BOOLEAN :
        /\ oss' = Append(oss, Answered(Request("token", NO_ID, 0, 0, <<>>), ok))
        /\ IF ok THEN token' = TRUE /\ pc' = "oss_put" /\ UNCHANGED <<outcome, result>>
           ELSE Raise("transport", NoResult) /\ UNCHANGED token
    /\ UNCHANGED <<fuvars, rvars, dvars, svars, pvars, inputs, marker, inflight, listed, file, filesize, file_sha1, read_range, upload_id,
                   negLog, resps, rangeReads, parts, part_number, skipped, uploaded>>

\* client.py 2592-2603: one PUT of the whole source.
OssUpload ==
    /\ pc = "oss_put"
    /\ \E ok \in BOOLEAN :
        /\ oss' = Append(oss, Answered(Request("put", NO_ID, 0, 0, <<>>), ok))
        /\ IF ok THEN Return(NoResult) ELSE Raise("transport", NoResult)
    /\ UNCHANGED <<fuvars, rvars, dvars, svars, pvars, inputs, marker, inflight, listed, file, filesize, file_sha1, read_range, token, upload_id,
                   negLog, resps, rangeReads, parts, part_number, skipped, uploaded>>

\* --------------------------------------------- _oss_multipart_upload_cancel
\* Status codes a DELETE ?uploadId= can be answered with.
StatusCodes == {200, 201, 204, 206, 299, 300, 301, 304, 400, 403, 404, 405, 409, 500, 503}

\* Faulty variant: only 2xx counts as cancelled.
CancelParse_2xxOnly(status_code) == 200 <= status_code /\ status_code < 300

\* client.py 2404: parse = lambda resp:
\*     200 <= resp.status_code < 300 or resp.status_code == 404
CancelParse(status_code) ==
    (200 <= status_code /\ status_code < 300) \/ status_code = 404

\* client.py 2404-2413: one DELETE ?uploadId=<id>; what the call returns is
\* what parse makes of the response.  A request that gets no response raises.
MultipartCancel ==
    /\ pc = "cancel"
    /\ \E ok \in BOOLEAN :
        /\ oss' = Append(oss, Answered(Request("cancel", upload_id, 0, 0, <<>>), ok))
        /\ IF ok
           THEN \E status_code \in StatusCodes :
                   Return([status_code |-> status_code, cancelled |-> CancelParse(status_code)])
           ELSE Raise("transport", NoResult)
    /\ UNCHANGED <<fuvars, rvars, dvars, svars, pvars, inputs, marker, inflight, listed, file, filesize, file_sha1, read_range,
                   token, upload_id, negLog, resps, rangeReads, parts, part_number, skipped, uploaded>>

Next ==
    \/ MultipartCancel
    \/ UploadFile
    \/ UploadFileSampleInit
    \/ UploadFileSample
    \/ UploadFileInit
    \/ UploadFileInitRangeProof
    \/ DoUpload
    \/ OssUploadToken
    \/ OssUpload
    \/ MultipartToken
    \/ MultipartResume
    \/ MultipartInit
    \/ MultipartUploadPart
    \/ MultipartUploadPartResponse
    \/ MultipartComplete

Spec == Init /\ [][Next]_vars

\* The steps the blocking branches take, whatever async_ is.
BlockingNext ==
    \/ MultipartCancel
    \/ UploadFileMode(FALSE)
    \/ UploadFileSampleInit
    \/ UploadFileSample
    \/ UploadFileInit
    \/ UploadFileInitRangeProofMode(FALSE)
    \/ DoUpload
    \/ OssUploadToken
    \/ OssUpload
    \/ MultipartToken
    \/ MultipartResume
    \/ MultipartInitMode(FALSE)
    \/ MultipartUploadPart
    \/ MultipartUploadPartResponse
    \/ MultipartComplete

\* ================================================================ pollers
\* client.py 4157-4288.  The three classes are Futures that a thread started
\* by the constructor drives: it polls a status endpoint once a second until
\* the job is over or the poller is stopped.
MaxPolls == 3
MaxStops == 2

uvars == <<entry, async_, file, curpos, filesize, file_sha1, read_range, part_size,
           upload_directly, token, upload_id, listing, pc, negLog, resps,
           rangeReads, oss, parts, part_number, skipped, uploaded, inflight,
           listed, page_len, marker, outcome, result>>

\* The upload part of a state in which no upload is modelled.
UploadIdle ==
    /\ entry = "none" /\ async_ = FALSE
    /\ file = [kind |-> "bytes", seekable |-> TRUE, sized |-> TRUE, len |-> 0, pos |-> 0]
    /\ curpos = 0 /\ filesize = -1 /\ file_sha1 = "none" /\ read_range = "None"
    /\ part_size = 1 /\ upload_directly = FALSE /\ token = FALSE
    /\ upload_id = NO_ID /\ listing = <<>> /\ pc = "idle"
    /\ negLog = <<>> /\ resps = <<>> /\ rangeReads = <<>>
    /\ oss = <<>> /\ parts = <<>> /\ part_number = 0
    /\ skipped = 0 /\ uploaded = 0 /\ inflight = 0 /\ listed = "none"
    /\ page_len = 1 /\ marker = 0
    /\ outcome = "running" /\ result = NoResult

Classes == {"ExportDirStatus", "PushExtractProgress", "ExtractProgress"}

\* Progress value with which the extraction pollers take the job for done
\* (client.py 4229, 4281).
DONE == 100

\* What a status request can come back with.  net: the request itself went
\* through; state: the "state" field check_response tests (client.py 83-150);
\* data: resp["data"] is not empty; progress: data["percent"] or
\* data["extract_status"]["progress"]; unzip_status:
\* data["extract_status"]["unzip_status"].
Resp(net, state, data, prog, unzip) ==
    [net |-> net, state |-> state, data |-> data, progress |-> prog, unzip_status |-> unzip]

StatusResponses(c) ==
    {Resp(FALSE, FALSE, FALSE, 0, 0), Resp(TRUE, FALSE, FALSE, 0, 0)} \cup
    CASE c = "ExportDirStatus" ->
            {Resp(TRUE, TRUE, d, 0, 0) : d \in BOOLEAN}
      [] c = "PushExtractProgress" ->
            {Resp(TRUE, TRUE, TRUE, g, u) : g \in {0, 50, DONE}, u \in {0, 1, 2, 4, 6, 9}}
      [] c = "ExtractProgress" ->
            {Resp(TRUE, TRUE, FALSE, 0, 0)} \cup
            {Resp(TRUE, TRUE, TRUE, g, 0) : g \in {0, 50, DONE}}

\* What the body of the try block does with a response: the value it leaves
\* in self.status / self.progress, and whether it calls set_result ("result"),
\* raises ("exc") or falls through to sleep ("continue").
Step(attr, act, exc) == [attr |-> attr, act |-> act, exc |-> exc]

\* Faulty variant: the return after set_result is missing.
Handle_noReturn(c, r, attr) ==
    IF ~r.net THEN Step(attr, "exc", "transport")
    ELSE IF ~r.state THEN Step(attr, "exc", "check_response")
    ELSE IF c = "ExportDirStatus"
    THEN IF r.data THEN Step(1, "result+continue", NoValue) ELSE Step(attr, "continue", NoValue)
    ELSE IF c = "PushExtractProgress"
    THEN IF r.progress = DONE THEN Step(attr, "result+continue", NoValue)
         ELSE IF r.unzip_status \in {1, 2, 4} THEN Step(r.progress, "continue", NoValue)
         ELSE IF r.unzip_status = 0 THEN Step(attr, "exc", "EIO bad file format")
         ELSE IF r.unzip_status = 6 THEN Step(attr, "exc", "EINVAL wrong password/secret")
         ELSE Step(attr, "exc", "EIO undefined error")
    ELSE IF ~r.data THEN Step(attr, "exc", "EINVAL no such extract_id")
         ELSE IF r.progress = DONE THEN Step(r.progress, "result+continue", NoValue)
         ELSE Step(r.progress, "continue", NoValue)

\* Faulty variant: an unzip_status outside 1, 2, 4 and an empty data are
\* taken for "still running".
Handle_lenient(c, r, attr) ==
    IF ~r.net THEN Step(attr, "exc", "transport")
    ELSE IF ~r.state THEN Step(attr, "exc", "check_response")
    ELSE IF c = "ExportDirStatus"
    THEN IF r.data THEN Step(1, "result", NoValue) ELSE Step(attr, "continue", NoValue)
    ELSE IF c = "PushExtractProgress"
    THEN IF r.progress = DONE THEN Step(attr, "result", NoValue)
         ELSE Step(r.progress, "continue", NoValue)
    ELSE IF ~r.data THEN Step(attr, "continue", NoValue)
         ELSE IF r.progress = DONE THEN Step(r.progress, "result", NoValue)
         ELSE Step(r.progress, "continue", NoValue)

\* client.py 4186-4190 (ExportDirStatus), 4226-4240 (PushExtractProgress),
\* 4276-4283 (ExtractProgress).
Handle(c, r, attr) ==
    IF ~r.net THEN Step(attr, "exc", "transport")
    ELSE IF ~r.state THEN Step(attr, "exc", "check_response")
    ELSE IF c = "ExportDirStatus"
    THEN IF r.data THEN Step(1, "result", NoValue) ELSE Step(attr, "continue", NoValue)
    ELSE IF c = "PushExtractProgress"
    THEN IF r.progress = DONE THEN Step(attr, "result", NoValue)
         ELSE IF r.unzip_status \in {1, 2, 4} THEN Step(r.progress, "continue", NoValue)
         ELSE IF r.unzip_status = 0 THEN Step(attr, "exc", "EIO bad file format")
         ELSE IF r.unzip_status = 6 THEN Step(attr, "exc", "EINVAL wrong password/secret")
         ELSE Step(attr, "exc", "EIO undefined error")
    ELSE IF ~r.data THEN Step(attr, "exc", "EINVAL no such extract_id")
         ELSE IF r.progress = DONE THEN Step(r.progress, "result", NoValue)
         ELSE Step(r.progress, "continue", NoValue)

\* The errno of the OSError an exception of the loop is: client.py 4235 and
\* 4239 (EIO), 4237 and 4278 (EINVAL), 139 (EIO, what check_response raises
\* for a response it knows no better exception for), 4178 (ECANCELED).
Errno(exc) ==
    CASE exc = "EIO bad file format" -> "EIO"
      [] exc = "EINVAL wrong password/secret" -> "EINVAL"
      [] exc = "EIO undefined error" -> "EIO"
      [] exc = "EINVAL no such extract_id" -> "EINVAL"
      [] exc = "check_response" -> "EIO"
      [] exc = "ECANCELED" -> "ECANCELED"
      [] OTHER -> "none"

\* States in which Future.set_result and Future.set_exception refuse to act.
Settled(f) == f.state \in {"CANCELLED", "FINISHED"}

\* self.set_result(data) as called at 4189, 4230, 4282: InvalidStateError on a
\* cancelled or finished future, else the result is stored, the state becomes
\* FINISHED and the waiters are notified.
SetResult(f, data) ==
    IF Settled(f) THEN [raised |-> TRUE, future |-> f]
    ELSE [raised |-> FALSE, future |-> [state |-> "FINISHED", result |-> <<data>>, exception |-> NoValue]]

\* Faulty variant: set_exception stores the exception whatever the state is.
SetException_unchecked(f, exc) ==
    [raised |-> FALSE, future |-> [state |-> "FINISHED", result |-> f.result, exception |-> exc]]

\* self.set_exception(e) as called at 4178, 4192 (and 4218, 4242, 4268, 4285):
\* the same test as set_result.
SetException(f, exc) ==
    IF Settled(f) THEN [raised |-> TRUE, future |-> f]
    ELSE [raised |-> FALSE, future |-> [state |-> "FINISHED", result |-> f.result, exception |-> exc]]

\* What result() hands to a thread: the stored result, the stored exception,
\* or CancelledError for a cancelled future.
Outcome(f) ==
    IF f.state = "CANCELLED" THEN "CancelledError"
    ELSE IF f.exception # NoValue THEN "exception" ELSE "result"

\* client.py 4168-4169: __bool__ of ExportDirStatus is self.status == 1;
\* 4211-4212, 4261-4262: of the extraction pollers, self.progress == 100.
Bool == IF cls = "ExportDirStatus" THEN progress = 1 ELSE progress = DONE

PollerInit ==
    /\ UploadIdle
    /\ SignIdle
    /\ DigestIdle
    /\ ReaddirIdle
    /\ FuseIdle
    /\ cls \in Classes
    /\ bound \in SUBSET {"Thread", "sleep"}
    /\ future = NewFuture /\ progress = 0 /\ dropAt = -1 /\ subm = <<>>
    /\ cpc \in (IF cls = "PushExtractProgress" THEN {"new", "submit"} ELSE {"new"}) /\ lpc = "none" /\ threads = 0 /\ reqs = 0 /\ sreq = 0
    /\ handled = <<>> /\ stops = 0 /\ stopAt = -1 /\ stop_error = <<>>
    /\ waiter = "idle"

\* Faulty variant: the loop goes on to the next request without the answer.
AwaitStatus_pipelined == "call"

\* client.py 4186, 4226, 4276: check(payload) returns only when the status
\* request has been answered.
AwaitStatus == "wait"

\* notify_all() of a successful set_result / set_exception wakes a thread
\* blocked in result().
Notified(w, f) == IF w = "blocked" THEN Outcome(f) ELSE w

\* client.py 4161-4166 (4201-4206, 4251-4256): the constructor puts the future
\* into RUNNING and calls _run_check, which starts the thread (4195, 4245,
\* 4288).  client.py imports no name Thread (imports at 9-64): unless the
\* embedding program bound one in the module, the call raises NameError out of
\* the constructor and the caller gets no poller.
Construct ==
    /\ future' = [future EXCEPT !.state = "RUNNING"]
    /\ IF "Thread" \in bound
       THEN /\ threads' = threads + 1
            /\ lpc' = "test"
            /\ cpc' = "has"
       ELSE /\ cpc' = "lost"
            /\ UNCHANGED <<threads, lpc>>
    /\ UNCHANGED <<fuvars, rvars, dvars, svars, uvars, dropAt, cls, bound, progress, reqs, sreq, handled, stops,
                   stopAt, stop_error, waiter>>

\* The constructor called by fs_export_dir_future (1455-1468),
\* extract_file_future (3650-3664) or the embedding program.
RunCheck ==
    /\ cpc = "new"
    /\ Construct
    /\ UNCHANGED subm

\* What the submission of extract_push_future can come back with: a failed
\* request, a response failing check_response, and checked responses whose
\* unzip_status is 4 or something else (client.py 3643-3646).
SubmitResponses ==
    {Resp(FALSE, FALSE, FALSE, 0, 0), Resp(TRUE, FALSE, FALSE, 0, 0)} \cup
    {Resp(TRUE, TRUE, TRUE, 0, u) : u \in {0, 1, 4}}

\* client.py 3634-3648: extract_push_future submits the job, checks the
\* response, returns None when it reports unzip_status 4, and otherwise
\* returns PushExtractProgress(self, pickcode).
ExtractPushFuture ==
    /\ cpc = "submit"
    /\ \E r \in SubmitResponses :
          /\ subm' = <<r>>
          /\ IF ~(r.net /\ r.state)
             THEN /\ cpc' = "raised"
                  /\ UNCHANGED <<fuvars, rvars, dvars, svars, uvars, dropAt, cls, bound, future, progress, lpc,
                                 threads, reqs, sreq, handled, stops, stopAt, stop_error, waiter>>
             ELSE IF r.unzip_status = 4
             THEN /\ cpc' = "returned None"
                  /\ UNCHANGED <<fuvars, rvars, dvars, svars, uvars, dropAt, cls, bound, future, progress, lpc,
                                 threads, reqs, sreq, handled, stops, stopAt, stop_error, waiter>>
             ELSE Construct

\* client.py 4184 (4224, 4274): while self.running().
LoopTest ==
    /\ lpc = "test"
    /\ lpc' = IF future.state = "RUNNING" THEN "call" ELSE "exit"
    /\ UNCHANGED <<fuvars, rvars, dvars, svars, uvars, dropAt, subm, cls, bound, future, progress, cpc, threads, reqs, sreq,
                   handled, stops, stopAt, stop_error, waiter>>

\* client.py 4186 (4226, 4276): the status request is sent.
LoopRequest ==
    /\ lpc = "call"
    /\ reqs < MaxPolls
    /\ reqs' = reqs + 1
    /\ sreq' = sreq + 1
    /\ lpc' = AwaitStatus
    /\ UNCHANGED <<fuvars, rvars, dvars, svars, uvars, dropAt, subm, cls, bound, future, progress, cpc, threads, handled,
                   stops, stopAt, stop_error, waiter>>

\* client.py 4185-4193 (4225-4243, 4275-4286): the answer is handled.  An
\* exception raised in the try block, InvalidStateError of set_result
\* included, reaches set_exception in the except clause; an exception raised
\* there ends the thread.
LoopResponse ==
    /\ lpc = "wait"
    /\ \E r \in StatusResponses(cls) :
        LET h == Handle(cls, r, progress)
            sets == h.act \in {"result", "result+continue"}
            a == IF sets THEN SetResult(future, r) ELSE [raised |-> FALSE, future |-> future]
            b == IF h.act = "exc" THEN SetException(future, h.exc)
                 ELSE IF a.raised THEN SetException(future, "InvalidStateError")
                 ELSE a
        IN /\ future' = b.future
           /\ progress' = h.attr
           /\ lpc' = IF b.raised THEN "died"
                     ELSE IF h.act \in {"continue", "result+continue"} /\ ~a.raised THEN "sleep"
                     ELSE "exit"
           /\ handled' = Append(handled, [resp |-> r, running |-> future.state = "RUNNING"])
           /\ waiter' = IF b.future # future THEN Notified(waiter, b.future) ELSE waiter
    /\ sreq' = sreq - 1
    /\ UNCHANGED <<fuvars, rvars, dvars, svars, uvars, dropAt, subm, cls, bound, cpc, threads, reqs, stops, stopAt, stop_error>>

\* client.py 4194 (4244, 4287): sleep(1).  client.py imports no name sleep
\* either; the call stands outside the try block.
LoopSleep ==
    /\ lpc = "sleep"
    /\ lpc' = IF "sleep" \in bound THEN "test" ELSE "died"
    /\ UNCHANGED <<fuvars, rvars, dvars, svars, uvars, dropAt, subm, cls, bound, future, progress, cpc, threads, reqs, sreq,
                   handled, stops, stopAt, stop_error, waiter>>

\* client.py 4174-4178 (4214-4218, 4264-4268): stop(), called by whoever holds
\* the poller, or by __del__ (4171-4172) when the constructor raised and the
\* object is dropped.
StopCall ==
    /\ stops' = stops + 1
    /\ IF future.state \in {"RUNNING", "PENDING"}
       THEN LET s == SetException([future EXCEPT !.state = "CANCELLED"], "ECANCELED")
            IN /\ future' = s.future
               /\ stop_error' = Append(stop_error, IF s.raised THEN "InvalidStateError" ELSE "none")
               /\ waiter' = IF s.raised THEN waiter ELSE Notified(waiter, s.future)
               /\ stopAt' = reqs
       ELSE /\ stop_error' = Append(stop_error, "none")
            /\ UNCHANGED <<future, waiter, stopAt>>
    /\ UNCHANGED <<fuvars, rvars, dvars, svars, uvars, dropAt, subm, cls, bound, progress, lpc, threads, reqs, sreq, handled>>

Stop ==
    /\ cpc \in {"has", "lost"}
    /\ stops < MaxStops
    /\ StopCall
    /\ UNCHANGED cpc

\* The thread started at 4195 (4245, 4288) runs update_progress, a closure
\* over self: the poller is referenced for as long as that thread lives.
ThreadAlive == lpc \in {"test", "call", "wait", "sleep"}

\* The caller gives up its reference to the poller (no thread of its own is
\* waiting in result()).
Drop ==
    /\ cpc = "has"
    /\ waiter # "blocked"
    /\ cpc' = "dropped"
    /\ dropAt' = IF future.state = "RUNNING" THEN reqs ELSE dropAt
    /\ UNCHANGED <<fuvars, rvars, dvars, svars, uvars, subm, cls, bound, future, progress, lpc, threads, reqs, sreq,
                   handled, stops, stopAt, stop_error, waiter>>

\* client.py 4171-4172 (4208-4209, 4258-4259): __del__ calls stop() when
\* nothing references the poller any more, that is when the caller has
\* dropped it and the thread of update_progress has ended.
Del ==
    /\ cpc = "dropped"
    /\ ~ThreadAlive
    /\ StopCall
    /\ cpc' = "finalized"

\* Future.result() called by a thread that holds the poller: it returns at
\* once on a settled future and blocks on the condition otherwise.
WaitResult ==
    /\ cpc = "has"
    /\ waiter = "idle"
    /\ waiter' = IF Settled(future) THEN Outcome(future) ELSE "blocked"
    /\ UNCHANGED <<fuvars, rvars, dvars, svars, uvars, dropAt, subm, cls, bound, future, progress, cpc, lpc, threads, reqs,
                   sreq, handled, stops, stopAt, stop_error>>

PollerNext ==
    \/ RunCheck
    \/ ExtractPushFuture
    \/ LoopTest
    \/ LoopRequest
    \/ LoopResponse
    \/ LoopSleep
    \/ Stop
    \/ Drop
    \/ Del
    \/ WaitResult

PollerSpec == PollerInit /\ [][PollerNext]_vars

\* ================================================================= signer
\* client.py 2157-2217: _oss_upload_sign.  A string is modelled as the sequence
\* of its pieces, so that concatenation is concatenation; the pieces are
\* names, values and the separators the code writes between them.

\* client.py 2167-2183.
subresource_key_set ==
    {"response-content-type", "response-content-language",
     "response-cache-control", "logging", "response-content-encoding", "acl",
     "uploadId", "uploads", "partNumber", "group", "link", "delete",
     "website", "location", "objectInfo", "objectMeta", "response-expires",
     "response-content-disposition", "cors", "lifecycle", "restore", "qos",
     "referer", "stat", "bucketInfo", "append", "position", "security-token",
     "live", "comp", "status", "vod", "startTime", "endTime",
     "x-oss-process", "symlink", "callback", "callback-var", "tagging",
     "encryption", "versions", "versioning", "versionId", "policy",
     "requestPayment", "x-oss-traffic-limit", "qosInfo", "asyncFetch",
     "x-oss-request-payer", "sequential", "inventory", "inventoryId",
     "continuation-token", "worm", "wormId", "wormExtend", "replication",
     "replicationLocation", "replicationProgress", "transferAcceleration",
     "cname", "metaQuery", "x-oss-ac-source-ip", "x-oss-ac-subnet-mask",
     "x-oss-ac-vpc-id", "x-oss-ac-forward-allow", "resourceGroup", "style",
     "styleName", "x-oss-async-process", "regionList"}

\* str.lower() on the header names of the model (2202).
Lower(k) == IF k = "X-OSS-Security-Token" THEN "x-oss-security-token" ELSE k

\* str.upper() on the methods of the model (2205).
Upper(method) == IF method = "put" THEN "PUT" ELSE method

\* Faulty variant: every header is signed.
IsOssHeader_any(k2) == TRUE

\* client.py 2202: k2.startswith("x-oss-").
IsOssHeader(k2) == k2 \in {"x-oss-security-token", "x-oss-callback"}

\* quote_plus inside urlencode (2196): a space becomes "+", "/" becomes %2F.
quote_plus(a) == IF a = "a b" THEN "a+b" ELSE IF a = "a/b" THEN "a%2Fb" ELSE a

\* The pieces of the model in the order Python sorts them as strings.
AtomOrder == <<"1", "2", "a b", "a/b", "cb", "content-type", "max-parts", "part-number-marker",
               "partNumber", "t1", "t2", "text", "u1", "u2", "uploadId", "uploads",
               "x-oss-callback", "x-oss-security-token">>
Rank(a) == CHOOSE i \in 1..Len(AtomOrder) : AtomOrder[i] = a

\* Order of two (name, value) tuples under sorted() (2204).
PairLess(e, f) ==
    \/ Rank(e[1]) < Rank(f[1])
    \/ Rank(e[1]) = Rank(f[1]) /\ Rank(e[2]) < Rank(f[2])

RECURSIVE Insert(_, _)
Insert(e, sq) ==
    IF sq = <<>> THEN <<e>>
    ELSE IF PairLess(sq[1], e) THEN <<sq[1]>> \o Insert(e, Tail(sq))
    ELSE <<e>> \o sq

\* sorted(it) at 2204.
RECURSIVE Sorted(_)
Sorted(sq) == IF sq = <<>> THEN <<>> ELSE Insert(Head(sq), Sorted(Tail(sq)))

\* sep.join(lines), each line a sequence of pieces.
RECURSIVE Join(_, _)
Join(lines, sep) ==
    IF lines = <<>> THEN <<>>
    ELSE IF Len(lines) = 1 THEN lines[1]
    ELSE lines[1] \o <<sep>> \o Join(Tail(lines), sep)

\* client.py 2198-2204: None gives "", a string is taken as it is, a dict
\* gives its lower-cased x-oss- headers, sorted, one "name:value" a line.
CanonicalHeaders(headers) ==
    IF headers.form = "None" THEN <<>>
    ELSE IF headers.form = "str" THEN headers.text
    ELSE LET lowered == [i \in DOMAIN headers.items |->
                            <<Lower(headers.items[i][1]), headers.items[i][2]>>]
             it == Sorted(SelectSeq(lowered, LAMBDA e : IsOssHeader(e[1])))
         IN Join([i \in DOMAIN it |-> <<it[i][1], ":", it[i][2]>>], "\n")

\* Iteration order of a set of names: Python fixes none, and the hashes of
\* strings differ from process to process; the model lets a process iterate
\* in ascending or in descending order.
RECURSIVE SetOrder(_, _)
SetOrder(S, order) ==
    IF S = {} THEN <<>>
    ELSE LET x == CHOOSE y \in S : \A z \in S :
                      IF order = "asc" THEN Rank(y) <= Rank(z) ELSE Rank(y) >= Rank(z)
         IN <<x>> \o SetOrder(S \ {x}, order)

ItemKeys(items) == {items[i][1] : i \in DOMAIN items}
Lookup(items, k) == items[CHOOSE i \in DOMAIN items : items[i][1] = k][2]

\* client.py 2188-2195: the parameters of a params that is not a string.
FilterParams(params, order) ==
    IF params.form = "dict"
    THEN IF ItemKeys(params.items) \ subresource_key_set # {}
         THEN LET ks == SetOrder(ItemKeys(params.items) \cap subresource_key_set, order)
              IN [i \in DOMAIN ks |-> <<ks[i], Lookup(params.items, ks[i])>>]
         ELSE params.items
    ELSE SelectSeq(params.items, LAMBDA e : e[1] \in subresource_key_set)

\* urlencode(params) at 2196.
urlencode(items) ==
    Join([i \in DOMAIN items |-> <<quote_plus(items[i][1]), "=", quote_plus(items[i][2])>>], "&")

\* client.py 2184-2197: the query part of the signing string.
CanonicalParams(params, order) ==
    IF params.form = "None" THEN <<>>
    ELSE LET text == IF params.form = "str" THEN params.text
                     ELSE urlencode(FilterParams(params, order))
         IN IF text # <<>> THEN <<"?">> \o text ELSE <<>>

\* client.py 2205-2212.
SignatureData(c) ==
    <<Upper(c.method), "\n", "\n", "\n", c.date, "\n">>
        \o CanonicalHeaders(c.headers)
        \o <<"\n", "/">> \o c.bucket_name \o <<"/">> \o c.key
        \o CanonicalParams(c.params, c.order)

\* hmac_digest(secret, data, "sha1"), taken as injective on (secret, data);
\* to_base64 (77-80) is injective.
Signature(secret, data) == [secret |-> secret, data |-> data]

\* client.py 2213-2217: the value returned.
SignResult(c) ==
    [date |-> c.date,
     authorization |-> [AccessKeyId |-> c.token.AccessKeyId,
                        signature |-> Signature(c.token.AccessKeySecret, SignatureData(c))]]

\* -- the calls the model makes
Form(form, text, items) == [form |-> form, text |-> text, items |-> items]

HeaderItems ==
    {<<<<"x-oss-security-token", "t1">>>>,
     <<<<"x-oss-security-token", "t2">>>>,
     <<<<"X-OSS-Security-Token", "t1">>>>,
     <<<<"x-oss-security-token", "t1">>, <<"content-type", "text">>>>,
     <<<<"x-oss-security-token", "t1">>, <<"x-oss-callback", "cb">>>>,
     <<<<"x-oss-callback", "cb">>, <<"x-oss-security-token", "t1">>>>}

HeadersArgs ==
    {Form("None", <<>>, <<>>), Form("str", <<>>, <<>>),
     Form("str", <<"x-oss-security-token", ":", "t1">>, <<>>)}
    \cup {Form("dict", <<>>, h) : h \in HeaderItems}

\* Lists of parameters with distinct names (a dict or another mapping).
ParamItems ==
    {<<<<"uploadId", "u1">>>>,
     <<<<"uploadId", "u2">>>>,
     <<<<"uploadId", "a b">>>>,
     <<<<"max-parts", "1">>>>,
     <<<<"partNumber", "1">>, <<"uploadId", "u1">>>>,
     <<<<"uploadId", "u1">>, <<"partNumber", "1">>>>,
     <<<<"uploadId", "u1">>, <<"part-number-marker", "1">>>>,
     <<<<"uploadId", "u1">>, <<"part-number-marker", "2">>>>,
     <<<<"partNumber", "1">>, <<"uploadId", "u1">>, <<"max-parts", "1">>>>}

ParamsArgs ==
    {Form("None", <<>>, <<>>), Form("str", <<>>, <<>>),
     Form("str", <<"uploads">>, <<>>),
     Form("str", <<"uploadId", "=", "u1">>, <<>>),
     Form("str", <<"uploadId", "=", "u1", "&", "max-parts", "=", "1">>, <<>>)}
    \cup {Form(f, <<>>, q) : f \in {"dict", "mapping", "pairs"}, q \in ParamItems}

Methods == {"PUT", "put", "GET"}
Buckets == {<<"bkt">>, <<"bkt2">>}
Keys == {<<"obj">>, <<"dir", "/", "obj">>}
Dates == {"d1", "d2"}
Secrets == {"s1", "s2"}
Orders == {"asc", "desc"}

Token(secret) == [AccessKeyId |-> "id", AccessKeySecret |-> secret]

Call(method, bucket, key, headers, params, date, secret, order) ==
    [method |-> method, bucket_name |-> bucket, key |-> key, headers |-> headers,
     params |-> params, date |-> date, token |-> Token(secret), order |-> order]

\* First calls: every method, key, headers, params and process.
FirstCalls ==
    {Call(m, <<"bkt">>, k, h, q, "d1", "s1", o) :
        m \in Methods, k \in Keys, h \in HeadersArgs, q \in ParamsArgs, o \in Orders}

\* Second calls: the first one again, or with one argument (the date, the
\* process) changed.
Variants(c) ==
    {c}
    \cup {[c EXCEPT !.method = m] : m \in Methods}
    \cup {[c EXCEPT !.bucket_name = b] : b \in Buckets}
    \cup {[c EXCEPT !.key = k] : k \in Keys}
    \cup {[c EXCEPT !.headers = h] : h \in HeadersArgs}
    \cup {[c EXCEPT !.params = q] : q \in ParamsArgs}
    \cup {[c EXCEPT !.date = d] : d \in Dates}
    \cup {[c EXCEPT !.token = Token(x)] : x \in Secrets}
    \cup {[c EXCEPT !.order = o] : o \in Orders}

SignInit ==
    /\ UploadIdle
    /\ PollerIdle
    /\ DigestIdle
    /\ ReaddirIdle
    /\ FuseIdle
    /\ \E c \in FirstCalls : \E d \in Variants(c) : calls = <<c, d>>
    /\ signed = <<>>

\* One call of _oss_upload_sign.
OssUploadSign ==
    /\ Len(signed) < Len(calls)
    /\ signed' = Append(signed, SignResult(calls[Len(signed) + 1]))
    /\ UNCHANGED <<fuvars, rvars, dvars, uvars, pvars, calls>>

SignNext == OssUploadSign

SignSpec == SignInit /\ [][SignNext]_vars

\* ================================================================= digest
\* client.py 3317-3394 and 2969-3028, blocking mode: what upload_file sends as
\* the sha1 of a source whose bytes are known.
MaxBytes == 3

Byte == {0, 1}
ByteSeqs == UNION {[1..n -> Byte] : n \in 0..MaxBytes}

\* hashlib.sha1(data).hexdigest(): lower-case hex digits.
Sha1Hex(data) == Digest(FALSE, data, "lower")

\* Faulty variant: the digest is sent as hexdigest() returned it.
upper_asIs(d) == d

\* client.py 3019: file_sha1 = file_sha1.upper()
upper(d) == [d EXCEPT !.case = "upper"]

\* file.read() and file_digest(file, "sha1") take the bytes from the
\* position of the reader to the end; a buffer and a file opened by path
\* start at the first byte.
ReadAll(f) == IF f.kind = "reader" THEN SubSeq(f.bytes, f.pos + 1, Len(f.bytes)) ELSE f.bytes

DigestSources ==
    {f \in [kind : {"bytes", "path", "reader"}, bytes : ByteSeqs, pos : 0..MaxPos,
            seekable : BOOLEAN] :
        /\ f.pos <= Len(f.bytes)
        /\ f.kind # "reader" => (f.pos = 0 /\ ~f.seekable)
        /\ ~f.seekable => f.pos = 0}

DigestInit ==
    /\ UploadIdle
    /\ PollerIdle
    /\ SignIdle
    /\ ReaddirIdle
    /\ FuseIdle
    /\ dfile \in DigestSources
    /\ dsize \in {-1, 0, 1, MB - 1, MB}
    /\ dsha1 \in {NoDigest, Digest(TRUE, <<>>, "lower"), Digest(TRUE, <<>>, "upper")}
    /\ dpc = "start" /\ dsent = <<>> /\ dout = "running"

\* client.py 3318-3394: size of the source, eager or lazy digest.
DigestPrepare ==
    /\ dpc = "start"
    /\ LET start == IF dfile.seekable THEN dfile.pos ELSE 0
           size == IF dsize >= 0 THEN dsize
                   ELSE IF dfile.kind = "reader" THEN Len(dfile.bytes) - start
                   ELSE Len(dfile.bytes)
           eager == CASE dfile.kind = "bytes" -> TRUE
                      [] dfile.kind = "path" -> size < MB
                      [] OTHER -> 0 < size /\ size < MB
       IN /\ dsize' = size
          /\ IF eager
             THEN \* 3321-3322, 3334-3336, 3373-3375: sha1(file).hexdigest()
                  /\ dsha1' = IF dsha1 = NoDigest THEN Sha1Hex(ReadAll(dfile)) ELSE dsha1
                  /\ dpc' = "init"
                  /\ UNCHANGED dout
             ELSE IF dsha1 # NoDigest
             THEN /\ dpc' = "init"
                  /\ UNCHANGED <<dsha1, dout>>
             ELSE IF dfile.kind = "path"
             THEN \* 3338-3339: file_digest(open(path, "rb")) lacks the
                  \* digest argument hashlib.file_digest requires.
                  /\ dout' = "TypeError"
                  /\ dpc' = "done"
                  /\ UNCHANGED dsha1
             ELSE IF ~dfile.seekable
             THEN \* 3378-3379: upload_file_sample, no negotiation
                  /\ dout' = "sample"
                  /\ dpc' = "done"
                  /\ UNCHANGED dsha1
             ELSE \* 3380-3384: def file_sha1()
                  /\ dsha1' = LazyDigest
                  /\ dpc' = "init"
                  /\ UNCHANGED dout
    /\ UNCHANGED <<fuvars, rvars, uvars, pvars, svars, dfile, dsent>>

\* client.py 2969-3028: size guard, call of a lazy digest, upper(), request.
DigestNegotiate ==
    /\ dpc = "init"
    /\ IF SizeGuardRaises(dsize)
       THEN /\ dout' = "ValueError"
            /\ UNCHANGED <<dsha1, dsent>>
       ELSE LET str == IF dsha1.state = "callable" THEN Sha1Hex(ReadAll(dfile)) ELSE dsha1
            IN /\ dsha1' = upper(str)
               /\ dsent' = Append(dsent, upper(str))
               /\ dout' = "sent"
    /\ dpc' = "done"
    /\ UNCHANGED <<fuvars, rvars, uvars, pvars, svars, dfile, dsize>>

DigestNext == DigestPrepare \/ DigestNegotiate

DigestSpec == DigestInit /\ [][DigestNext]_vars

\* =========================================================== FUSE readdir
\* fuser.py 58-93: readdir_future_wrapper.  Callers are the threads of the
\* FUSE loop; the tasks run readdir (286-344) on the threads of the executor.
Task(path, state, failed, cb) == [path |-> path, state |-> state, failed |-> failed, cb |-> cb]

ReaddirInit ==
    /\ UploadIdle
    /\ PollerIdle
    /\ SignIdle
    /\ DigestIdle
    /\ FuseIdle
    /\ cooldown_on \in BOOLEAN
    /\ task_pool = [path \in RawPaths |-> 0]
    /\ tasks = <<>>
    /\ lock = 0
    /\ cooldown_pool = {}
    /\ cache = {}
    /\ wrapper = [c \in Callers |-> Frame("idle", "", "", FALSE, 0)]
    /\ wcalls = 0

\* Faulty variant: the check of the pool and the submission are not guarded.
LockFree_always(l) == TRUE

\* fuser.py 79: `with lock` is entered when no other caller holds the lock.
LockFree(l) == l = 0

\* fuser.py 71-78: normalize the path, look for a cached listing, decide
\* whether to refresh.
WrapperCall(c) ==
    /\ wrapper[c].pc = "idle"
    /\ wcalls < MaxCalls
    /\ wcalls' = wcalls + 1
    /\ \E raw \in RawPaths :
        LET path == normalize(raw)
            hit == path \in cache
            refresh == ~cooldown_on \/ path \notin cooldown_pool \/ ~hit
        IN wrapper' = [wrapper EXCEPT ![c] =
                          Frame(IF refresh THEN "lock" ELSE "return", raw, path, hit, 0)]
    /\ UNCHANGED <<fuvars, uvars, pvars, svars, dvars, cooldown_on, task_pool, tasks, lock,
                   cooldown_pool, cache>>

\* fuser.py 79: with lock.
WrapperLock(c) ==
    /\ wrapper[c].pc = "lock"
    /\ LockFree(lock)
    /\ lock' = c
    /\ wrapper' = [wrapper EXCEPT ![c].pc = "lookup"]
    /\ UNCHANGED <<fuvars, uvars, pvars, svars, dvars, cooldown_on, task_pool, tasks, cooldown_pool,
                   cache, wcalls>>

\* fuser.py 80-82: future = task_pool[path]; a KeyError leads to the submission.
WrapperLookup(c) ==
    /\ wrapper[c].pc = "lookup"
    /\ IF task_pool[wrapper[c].path] # 0
       THEN /\ wrapper' = [wrapper EXCEPT ![c].future = task_pool[wrapper[c].path],
                                          ![c].pc = "return"]
            /\ lock' = 0
       ELSE /\ wrapper' = [wrapper EXCEPT ![c].pc = "submit"]
            /\ UNCHANGED lock
    /\ UNCHANGED <<fuvars, uvars, pvars, svars, dvars, cooldown_on, task_pool, tasks, cooldown_pool,
                   cache, wcalls>>

\* fuser.py 87: future = task_pool[path] = submit(readdir, self, path, fh).
WrapperSubmit(c) ==
    /\ wrapper[c].pc = "submit"
    /\ Len(tasks) < MaxTasks
    /\ tasks' = Append(tasks, Task(wrapper[c].path, "queued", FALSE, "none"))
    /\ task_pool' = [task_pool EXCEPT ![wrapper[c].path] = Len(tasks) + 1]
    /\ wrapper' = [wrapper EXCEPT ![c].future = Len(tasks) + 1, ![c].pc = "add_done_callback"]
    /\ UNCHANGED <<fuvars, uvars, pvars, svars, dvars, cooldown_on, lock, cooldown_pool, cache, wcalls>>

\* fuser.py 83-86: done_callback puts the path of a task that did not raise
\* into the cooldown_pool and pops the path from the task_pool.
DoneCallback(t) ==
    /\ cooldown_pool' = IF cooldown_on /\ ~tasks[t].failed
                        THEN cooldown_pool \cup {tasks[t].path} ELSE cooldown_pool
    /\ task_pool' = [task_pool EXCEPT ![tasks[t].path] = 0]
    /\ tasks' = [tasks EXCEPT ![t].cb = "ran"]

\* fuser.py 88: future.add_done_callback(done_callback) calls the callback at
\* once when the future is finished and registers it otherwise; the with
\* block ends.
WrapperAddDoneCallback(c) ==
    /\ wrapper[c].pc = "add_done_callback"
    /\ IF tasks[wrapper[c].future].state = "finished"
       THEN DoneCallback(wrapper[c].future)
       ELSE /\ tasks' = [tasks EXCEPT ![wrapper[c].future].cb = "registered"]
            /\ UNCHANGED <<task_pool, cooldown_pool>>
    /\ lock' = 0
    /\ wrapper' = [wrapper EXCEPT ![c].pc = "return"]
    /\ UNCHANGED <<fuvars, uvars, pvars, svars, dvars, cooldown_on, cache, wcalls>>

\* fuser.py 89-92: the cached listing if there is one, else future.result(),
\* which blocks until the task is finished.
WrapperReturn(c) ==
    /\ wrapper[c].pc = "return"
    /\ IF wrapper[c].hit THEN TRUE ELSE tasks[wrapper[c].future].state = "finished"
    /\ wrapper' = [wrapper EXCEPT ![c].pc = "idle"]
    /\ UNCHANGED <<fuvars, uvars, pvars, svars, dvars, cooldown_on, task_pool, tasks, lock,
                   cooldown_pool, cache, wcalls>>

\* A thread of the executor takes the task up.
TaskStart(t) ==
    /\ tasks[t].state = "queued"
    /\ tasks' = [tasks EXCEPT ![t].state = "running"]
    /\ UNCHANGED <<fuvars, uvars, pvars, svars, dvars, cooldown_on, task_pool, lock, cooldown_pool,
                   cache, wrapper, wcalls>>

\* fuser.py 286-344: readdir stores the listing (336) and returns, or raises
\* OSError; the future becomes FINISHED.
TaskFinish(t) ==
    /\ tasks[t].state = "running"
    /\ \E ok \in BOOLEAN :
        /\ tasks' = [tasks EXCEPT ![t].state = "finished", ![t].failed = ~ok]
        /\ cache' = IF ok THEN cache \cup {tasks[t].path} ELSE cache
    /\ UNCHANGED <<fuvars, uvars, pvars, svars, dvars, cooldown_on, task_pool, lock, cooldown_pool,
                   wrapper, wcalls>>

\* The thread that finished the task calls the registered callback.
TaskCallback(t) ==
    /\ tasks[t].state = "finished"
    /\ tasks[t].cb = "registered"
    /\ DoneCallback(t)
    /\ UNCHANGED <<fuvars, uvars, pvars, svars, dvars, cooldown_on, lock, cache, wrapper, wcalls>>

\* fuser.py 66: an entry of the TTLCache expires.
CooldownExpire ==
    /\ \E path \in cooldown_pool : cooldown_pool' = cooldown_pool \ {path}
    /\ UNCHANGED <<fuvars, uvars, pvars, svars, dvars, cooldown_on, task_pool, tasks, lock, cache,
                   wrapper, wcalls>>

ReaddirNext ==
    \/ \E c \in Callers : WrapperCall(c)
    \/ \E c \in Callers : WrapperLock(c)
    \/ \E c \in Callers : WrapperLookup(c)
    \/ \E c \in Callers : WrapperSubmit(c)
    \/ \E c \in Callers : WrapperAddDoneCallback(c)
    \/ \E c \in Callers : WrapperReturn(c)
    \/ \E t \in DOMAIN tasks : TaskStart(t)
    \/ \E t \in DOMAIN tasks : TaskFinish(t)
    \/ \E t \in DOMAIN tasks : TaskCallback(t)
    \/ CooldownExpire

ReaddirSpec == ReaddirInit /\ [][ReaddirNext]_vars

\* ============================================================== FUSE read
\* The content of the file: byte i of it has the value i.
Content == [i \in 1..flen |-> i]

\* Python's seq[a:b] for 0 <= a <= b.
Slice(seq, a, b) == SubSeq(seq, a + 1, Min(b, Len(seq)))

FuseInit ==
    /\ UploadIdle
    /\ PollerIdle
    /\ SignIdle
    /\ DigestIdle
    /\ ReaddirIdle
    /\ fkind \in {"strm", "file"}
    /\ flen \in 0..MaxFile
    /\ fh_to_file = [fh \in Handles |-> NoEntry]
    /\ rfiles = <<>>
    /\ reader = [r \in Readers |-> ReadFrame("idle", 0, 0, 0, 0, <<>>, Returned(<<>>))]
    /\ released = {} /\ closed_all = FALSE /\ nreads = 0

\* fuser.py 245-248: read(path, size, offset, fh); without a handle it
\* returns b"".
ReadCall(r) ==
    /\ reader[r].pc = "idle"
    /\ nreads < MaxReads
    /\ ~closed_all
    /\ nreads' = nreads + 1
    /\ \E fh \in {0} \cup (Handles \ released), size \in 0..MaxSize, offset \in 0..MaxFile :
        reader' = [reader EXCEPT ![r] =
                      ReadFrame(IF fh = 0 THEN "returned" ELSE "lookup", fh, size, offset,
                                0, <<>>, Returned(<<>>))]
    /\ UNCHANGED <<uvars, pvars, svars, dvars, rvars, fkind, flen, fh_to_file, rfiles,
                   released, closed_all>>

\* fuser.py 250-252: file, preread = self._fh_to_file[fh], else KeyError.
ReadLookup(r) ==
    /\ reader[r].pc = "lookup"
    /\ LET e == fh_to_file[reader[r].fh]
       IN reader' = [reader EXCEPT ![r] =
                        IF e.present
                        THEN [@ EXCEPT !.pc = "serve", !.file = e.file, !.preread = e.preread]
                        ELSE [@ EXCEPT !.pc = "open"]]
    /\ UNCHANGED <<uvars, pvars, svars, dvars, rvars, fkind, flen, fh_to_file, rfiles,
                   released, closed_all, nreads>>

\* fuser.py 238-242: the first CacheBytes bytes are read ahead when the first
\* read starts at 0, nothing otherwise.
Preread(start) == IF start = 0 THEN Slice(Content, 0, CacheBytes) ELSE <<>>

\* fuser.py 230-243: _open(path, offset) gives (None, data) for a strm entry,
\* (None, whole content) for a file of at most CacheBytes bytes, and else a
\* newly opened remote file with the bytes read ahead.
ReadOpen(r) ==
    /\ reader[r].pc = "open"
    /\ IF fkind = "strm" \/ flen <= CacheBytes
       THEN /\ reader' = [reader EXCEPT ![r].pc = "store", ![r].file = 0, ![r].preread = Content]
            /\ UNCHANGED rfiles
       ELSE /\ rfiles' = Append(rfiles, [fh |-> reader[r].fh, closed |-> FALSE])
            /\ reader' = [reader EXCEPT ![r].pc = "store", ![r].file = Len(rfiles) + 1,
                                        ![r].preread = Preread(reader[r].offset)]
    /\ UNCHANGED <<uvars, pvars, svars, dvars, rvars, fkind, flen, fh_to_file, released,
                   closed_all, nreads>>

\* fuser.py 253: file, preread = self._fh_to_file[fh] = <what _open returned>.
ReadStore(r) ==
    /\ reader[r].pc = "store"
    /\ fh_to_file' = [fh_to_file EXCEPT ![reader[r].fh] =
                         Entry(TRUE, reader[r].file, reader[r].preread)]
    /\ reader' = [reader EXCEPT ![r].pc = "serve"]
    /\ UNCHANGED <<uvars, pvars, svars, dvars, rvars, fkind, flen, rfiles, released,
                   closed_all, nreads>>

\* file.seek(start); file.read(n) on a remote file object: the content from
\* start on, ValueError on a closed file, AttributeError on None.
FileRead(f, start, n) ==
    IF f = 0 THEN EIO
    ELSE IF rfiles[f].closed THEN EIO
    ELSE Returned(Slice(Content, start, start + n))

\* fuser.py 254-269: serve the read from the bytes read ahead, from the file,
\* or from both; every exception becomes OSError(EIO).
ReadResult(f, preread, size, offset) ==
    LET cache_size == Len(preread)
    IN IF offset < cache_size /\ offset + size <= cache_size
       THEN Returned(Slice(preread, offset, offset + size))
       ELSE IF offset < cache_size /\ f # 0
       THEN LET rest == FileRead(f, cache_size, offset + size - cache_size)
            IN IF rest.raised THEN EIO
               ELSE Returned(Slice(preread, offset, cache_size) \o rest.bytes)
       ELSE FileRead(f, offset, size)

ReadServe(r) ==
    /\ reader[r].pc = "serve"
    /\ reader' = [reader EXCEPT ![r].pc = "returned",
                                ![r].ret = ReadResult(reader[r].file, reader[r].preread,
                                                      reader[r].size, reader[r].offset)]
    /\ UNCHANGED <<uvars, pvars, svars, dvars, rvars, fkind, flen, fh_to_file, rfiles,
                   released, closed_all, nreads>>

\* The call of read is over.
ReadReturn(r) ==
    /\ reader[r].pc = "returned"
    /\ reader' = [reader EXCEPT ![r] = ReadFrame("idle", 0, 0, 0, 0, <<>>, Returned(<<>>))]
    /\ UNCHANGED <<uvars, pvars, svars, dvars, rvars, fkind, flen, fh_to_file, rfiles,
                   released, closed_all, nreads>>

Reading(fh) == \E r \in Readers : reader[r].fh = fh /\ reader[r].pc \notin {"idle", "returned"}

CloseFile(fs, f) == IF f = 0 THEN fs ELSE [fs EXCEPT ![f].closed = TRUE]

\* fuser.py 346-362: release(path, fh) pops the entry of the handle and closes
\* its file.  The kernel releases a handle when no read on it is under way.
Release(fh) ==
    /\ fh \notin released
    /\ ~Reading(fh)
    /\ released' = released \cup {fh}
    /\ fh_to_file' = [fh_to_file EXCEPT ![fh] = NoEntry]
    /\ rfiles' = IF fh_to_file[fh].present THEN CloseFile(rfiles, fh_to_file[fh].file) ELSE rfiles
    /\ UNCHANGED <<uvars, pvars, svars, dvars, rvars, fkind, flen, reader, closed_all, nreads>>

\* fuser.py 141-153 and 176-181: close() runs close_all, which pops every
\* entry of the table and closes its file.
Close ==
    /\ ~closed_all
    /\ \A fh \in Handles : ~Reading(fh)
    /\ closed_all' = TRUE
    /\ fh_to_file' = [fh \in Handles |-> NoEntry]
    /\ rfiles' = [f \in DOMAIN rfiles |->
                    IF \E fh \in Handles : fh_to_file[fh].present /\ fh_to_file[fh].file = f
                    THEN [rfiles[f] EXCEPT !.closed = TRUE] ELSE rfiles[f]]
    /\ UNCHANGED <<uvars, pvars, svars, dvars, rvars, fkind, flen, reader, released, nreads>>

FuseNext ==
    \/ \E r \in Readers : ReadCall(r)
    \/ \E r \in Readers : ReadLookup(r)
    \/ \E r \in Readers : ReadOpen(r)
    \/ \E r \in Readers : ReadStore(r)
    \/ \E r \in Readers : ReadServe(r)
    \/ \E r \in Readers : ReadReturn(r)
    \/ \E fh \in Handles : Release(fh)
    \/ Close

FuseSpec == FuseInit /\ [][FuseNext]_vars

\* ================================================================ claims
LastResp == resps[Len(resps)]
Matched(r) == r.status = 2 /\ r.statuscode = 0
NeedsUpload(r) == r.status = 1 /\ r.statuscode = 0
Challenge(r) == r.status = 7 /\ r.statuscode = 701

OpsOf(op) == {i \in 1..Len(oss) : oss[i].op = op}
PartOps == SelectSeq(oss, LAMBDA q : q.op = "part")

\* C1: in upload_file without upload_directly, whenever the negotiation response
\* is matched (status 2, statuscode 0) no object-storage request is ever issued
\* and the call returns that response.
C1_MatchedShortCircuits ==
    (entry = "upload_file" /\ ~upload_directly /\ resps # <<>> /\ Matched(LastResp))
        => /\ oss = <<>>
           /\ pc \in {"init_done", "done"}
           /\ pc = "done" => (outcome = "ok" /\ result = LastResp)

C1_Witness ==
    /\ entry = "upload_file" /\ ~upload_directly
    /\ resps # <<>> /\ Matched(LastResp)
    /\ pc = "done" /\ outcome = "ok" /\ oss = <<>>

\* C2: for a source whose declared size is >= 1 MiB, upload_file_init negotiates,
\* and when the first response is needs-range-proof it reads the challenged
\* range once and issues exactly one further negotiation request carrying
\* sign_key and sign_val (two negotiation requests in total).
C2_RangeProofRoundTrip ==
    (entry = "upload_file" /\ pc = "done" /\ filesize >= MB
        /\ OpsOf("sample_init") = {} /\ outcome # "transport")
        => /\ Len(negLog) >= 1
           /\ (resps # <<>> /\ Challenge(resps[1]))
                => /\ rangeReads = <<resps[1].sign_check>>
                   /\ Len(negLog) = 2
                   /\ negLog[2].sign

\* C3: one upload_file_init call issues at most two negotiation requests; when
\* the answer to the second is again needs-range-proof the call ends with an
\* error, without a third negotiation request and without any object-storage
\* request.
C3_AtMostTwoNegotiations ==
    /\ Len(negLog) <= 2
    /\ (Len(resps) = 2 /\ Challenge(resps[2]))
        => /\ oss = <<>>
           /\ pc \in {"init_done", "done"}
           /\ pc = "done" => outcome \in {"KeyError", "EINVAL"}

C3_Witness ==
    /\ Len(resps) = 2 /\ Challenge(resps[2])
    /\ Len(negLog) = 2 /\ Len(rangeReads) = 1
    /\ pc = "done" /\ outcome = "EINVAL" /\ oss = <<>>

\* C4: when the final negotiation response (the first one unless it is a range
\* challenge, else the second) is neither matched nor needs-upload, upload_file
\* raises OSError(EINVAL) whose payload is that response, and makes no
\* object-storage request.
C4_ProtocolError ==
    (entry = "upload_file" /\ pc = "done" /\ resps # <<>> /\ outcome # "transport"
        /\ ~(Len(resps) = 1 /\ Challenge(LastResp))
        /\ ~Matched(LastResp) /\ ~NeedsUpload(LastResp))
        => /\ outcome = "EINVAL"
           /\ result = LastResp
           /\ oss = <<>>

\* C5: in every Complete request the PartNumber values of the manifest are
\* exactly 1, 2, ..., k in that order, for a fresh session and for a session
\* resumed from any listing.
C5_ManifestContiguous ==
    \A i \in OpsOf("complete") :
        \A j \in 1..Len(oss[i].manifest) : oss[i].manifest[j].PartNumber = j

\* The listing has been enumerated: its last page has been answered.
ListingDone == listed = "ok"

Resumed == entry = "_oss_multipart_upload" /\ upload_id = SUPPLIED_ID /\ ListingDone

Mismatches == {i \in 1..Len(listing) : listing[i].Size # part_size}
FirstMismatch == CHOOSE i \in Mismatches : \A j \in Mismatches : i <= j

\* C6: resuming a session whose listing holds N parts, all of size part_size,
\* skips exactly N * part_size bytes of the source, uploads the first part with
\* sequence number N + 1, re-uploads none of the N parts and takes exactly
\* N * part_size fewer bytes from the source than a fresh upload would.
C6_ResumeSkipsAccepted ==
    (Resumed /\ listing # <<>> /\ Mismatches = {}
        /\ file.len - curpos >= Len(listing) * part_size)
        => /\ skipped = Len(listing) * part_size
           /\ \A i \in 1..Len(PartOps) : PartOps[i].n = Len(listing) + i
           /\ outcome = "ok" => uploaded = (file.len - curpos) - Len(listing) * part_size

\* C7 (as stated): when a listed part has a size other than part_size, the
\* orchestrator falls back to a fresh session: it requests a new upload id,
\* skips no byte and numbers the uploaded parts from 1.
C7_FallsBackToFresh ==
    (Resumed /\ Mismatches # {})
        => /\ skipped = 0
           /\ \A i \in 1..Len(PartOps) : PartOps[i].n = i
           /\ PartOps # <<>> => OpsOf("init") # {}

\* C7 (amended): when a listed part has a size other than part_size, the
\* orchestrator keeps the supplied upload id and requests no new one; it accepts
\* exactly the parts listed before the first such part and numbers the uploaded
\* parts from count(accepted) + 1; it skips no byte and numbers from 1 only
\* when the first listed part is the differing one.
C7_ResumeKeepsSession ==
    (Resumed /\ Mismatches # {})
        => /\ OpsOf("init") = {}
           /\ \A i \in 1..Len(oss) : oss[i].op \in {"list", "part", "complete"} => oss[i].id = SUPPLIED_ID
           /\ \A i \in 1..Len(PartOps) : PartOps[i].n = FirstMismatch - 1 + i
           /\ FirstMismatch = 1 => skipped = 0
           /\ FirstMismatch > 1 => (\A i \in 1..Len(PartOps) : PartOps[i].n # 1)

C7_Witness ==
    /\ Resumed /\ Mismatches # {} /\ FirstMismatch = 2 /\ Len(listing) = 2
    /\ listing[2].Size = part_size - 1
    /\ Len(PartOps) >= 1 /\ PartOps[1].n = 2
    /\ pc = "done" /\ outcome = "ok"

\* A listed part other than the last listed one has a size other than part_size.
MismatchNotLast == \E i \in Mismatches : i < Len(listing)

C9_LoopStopsAtShortPart ==
    /\ \A i \in 1..Len(PartOps) :
          /\ (PartOps[i].size < part_size) => i = Len(PartOps)
          /\ i > 1 => PartOps[i].n = PartOps[i - 1].n + 1
    /\ pc = "mp_complete"
        => /\ parts # <<>> /\ parts[Len(parts)].Size < part_size
           /\ PartOps # <<>> /\ PartOps[Len(PartOps)].size = parts[Len(parts)].Size
           /\ file.pos >= file.len
           /\ (uploaded > 0 /\ uploaded % part_size = 0)
                => /\ parts[Len(parts)].Size = 0
                   /\ Len(PartOps) = (uploaded \div part_size) + 1

C9_Witness ==
    /\ pc = "mp_complete"
    /\ uploaded = 2 * part_size
    /\ Len(PartOps) = 3 /\ PartOps[3].size = 0 /\ PartOps[2].size = part_size

\* C10: a fresh multipart upload of a source of exactly 3 * part_size bytes
\* makes 4 part-upload calls and then one Complete call whose manifest lists
\* exactly 3 parts, in the order 1, 2, 3.
C10_ThreePartsManifest ==
    (entry = "_oss_multipart_upload" /\ upload_id # "supplied"
        /\ file.len - curpos = 3 * part_size /\ pc = "done" /\ outcome # "transport")
        => /\ outcome = "ok"
           /\ Len(PartOps) = 4
           /\ oss[Len(oss)].op = "complete"
           /\ Len(oss[Len(oss)].manifest) = 3
           /\ \A j \in 1..3 : oss[Len(oss)].manifest[j].PartNumber = j

\* C11: within one multipart session the part uploads carry strictly
\* increasing numbers (each the previous one plus 1), a part upload is issued
\* only when the previous one has been answered, and never are two part
\* uploads in flight.
C11_PartsOneAtATime ==
    /\ inflight \in {0, 1}
    /\ (inflight = 1) <=> (pc = "mp_part_wait")
    /\ \A i \in 1..(Len(PartOps) - 1) : PartOps[i + 1].n = PartOps[i].n + 1

C11_Witness ==
    /\ Len(PartOps) = 3 /\ inflight = 1 /\ Len(parts) = 2
    /\ upload_id = FRESH_ID

\* C12: when the listing request of a resume fails, the call raises that
\* failure: no init, part-upload or Complete request is issued and the failed
\* listing is not taken for an empty one.
C12_ListingFailurePropagates ==
    listed = "failed"
        => /\ pc = "done" /\ outcome = "transport"
           /\ OpsOf("init") = {} /\ OpsOf("part") = {} /\ OpsOf("complete") = {}
           /\ oss[Len(oss)].op = "list" /\ oss[Len(oss)].ans = "failed"
           /\ part_number = 0 /\ upload_id = SUPPLIED_ID

C12_Witness ==
    /\ listed = "failed" /\ pc = "done"
    /\ listing # <<>> /\ file.len > file.pos

\* ------------------------------------------------------- claims on pollers
Succeeded == future.state = "FINISHED" /\ future.exception = NoValue
Failed == future.state = "FINISHED" /\ future.exception # NoValue
Cancelled == future.state = "CANCELLED"

\* What a status response reports, in the words of the specification: the
\* terminal success condition, a domain error, or a job still in progress.
Reports(c, r) ==
    IF ~r.net THEN "transport"
    ELSE IF ~r.state THEN "error"
    ELSE IF c = "ExportDirStatus" THEN (IF r.data THEN "success" ELSE "progress")
    ELSE IF c = "ExtractProgress"
    THEN (IF ~r.data THEN "error" ELSE IF r.progress = 100 THEN "success" ELSE "progress")
    ELSE IF r.progress = 100 THEN "success"
    ELSE IF r.unzip_status \in {1, 2, 4} THEN "progress" ELSE "error"

\* The exception a domain error is turned into.
Reason(c, r) ==
    IF ~r.state THEN "check_response"
    ELSE IF c = "ExtractProgress" THEN "EINVAL no such extract_id"
    ELSE IF r.unzip_status = 0 THEN "EIO bad file format"
    ELSE IF r.unzip_status = 6 THEN "EINVAL wrong password/secret"
    ELSE "EIO undefined error"

LastHandled == handled[Len(handled)]

\* C15: once a poller is Succeeded, Failed or Cancelled, no step (a call of
\* stop(), a step of the loop, a late status response) changes its state, its
\* result or its exception.
C15_TerminalIsFinal == [][Settled(future) => future' = future]_vars

C15_Witness ==
    /\ Cancelled /\ stops = 2 /\ lpc = "died"
    /\ handled # <<>> /\ ~LastHandled.running
    /\ Reports(cls, LastHandled.resp) = "success"

\* C16: a status response that reports the terminal success condition is the
\* last one the loop asks for; the poller that was Running when the response
\* was handled has it as its result and is Succeeded (a poller cancelled in
\* the meantime stays Cancelled, C15).
C16_SuccessEndsPolling ==
    \A i \in 1..Len(handled) :
        Reports(cls, handled[i].resp) = "success"
            => /\ i = Len(handled) /\ sreq = 0 /\ lpc \in {"exit", "died"}
               /\ handled[i].running
                    => /\ Succeeded /\ future.result = <<handled[i].resp>>
                       /\ lpc = "exit"

C16_Witness ==
    /\ Len(handled) = 2 /\ LastHandled.running /\ reqs < MaxPolls
    /\ Reports(cls, LastHandled.resp) = "success"
    /\ Succeeded /\ stops = 1

\* C17: a status response of a Running poller that reports a domain error (a
\* failed response state, an unzip_status other than 1, 2, 4, empty data for
\* an extract id) makes the poller Failed with the exception that stands for
\* that error, and is the last response the loop asks for.
C17_DomainErrorEndsPolling ==
    \A i \in 1..Len(handled) :
        (Reports(cls, handled[i].resp) = "error" /\ handled[i].running)
            => /\ i = Len(handled) /\ sreq = 0 /\ lpc = "exit"
               /\ Failed /\ future.exception = Reason(cls, handled[i].resp)
               /\ future.result = NoData

C17_Witness ==
    /\ Len(handled) = 2 /\ LastHandled.running /\ reqs < MaxPolls
    /\ Reports(cls, LastHandled.resp) = "error"
    /\ cls = "PushExtractProgress" /\ LastHandled.resp.unzip_status = 6
    /\ Failed

C19_StopWakesWaiters ==
    stopAt # -1
        => /\ \A i \in 1..Len(stop_error) : stop_error[i] = "none"
           /\ waiter # "blocked"

\* C20: at most one status request of a poller is in flight; a request begins
\* only when the previous one has been answered, the loop has slept and has
\* tested running() again; one thread at most runs the loop.
C20_OneRequestInFlight ==
    /\ [](sreq \in {0, 1} /\ threads \in {0, 1} /\ ((sreq = 1) <=> (lpc = "wait")))
    /\ [][/\ reqs' # reqs => (reqs' = reqs + 1 /\ sreq = 0 /\ lpc = "call"
                               /\ Len(handled) = reqs)
          /\ (lpc' = "call" /\ lpc # "call") => lpc = "test"
          /\ (lpc' = "test" /\ lpc # "test") => (lpc = "sleep" \/ threads' = threads + 1)
          /\ (lpc' = "sleep" /\ lpc # "sleep") => lpc = "wait"]_vars

C20_Witness ==
    /\ reqs = 3 /\ sreq = 1 /\ Len(handled) = 2 /\ threads = 1

\* ------------------------------------------------------ claims on signing
Range(sq) == {sq[i] : i \in DOMAIN sq}
BothSigned == Len(signed) = 2
SameAuthorization == signed[1].authorization = signed[2].authorization

\* Arguments in which the two calls differ.
Differing(fields) == {f \in fields : calls[1][f] # calls[2][f]}
SignInputs == {"method", "bucket_name", "key", "headers", "params", "date", "token"}
OnlyChange(f) == Differing(SignInputs \cup {"order"}) = {f}

\* The x-oss-* headers of a headers dict, names in lower case.
OssPairs(headers) ==
    {<<Lower(e[1]), e[2]>> : e \in {x \in Range(headers.items) : Lower(x[1]) \in
        {"x-oss-security-token", "x-oss-callback"}}}

\* The allow-listed parameters of a params that is not a string.
AllowedPairs(params) == {e \in Range(params.items) : e[1] \in subresource_key_set}
Dropped(params) == {e \in Range(params.items) : e[1] \notin subresource_key_set}
Itemized(params) == params.form \in {"dict", "mapping", "pairs"}

\* C13 (as stated): two signing calls with the same method, bucket, key,
\* headers, params, date and secret return the same authorization, and two
\* calls that differ in one of these return different authorizations.
C13_SignatureSensitive ==
    BothSigned
        => /\ Differing(SignInputs) = {} => SameAuthorization
           /\ Cardinality(Differing(SignInputs)) = 1 => ~SameAuthorization

\* C13 (amended): two calls with the same arguments, made in one process,
\* return the same authorization.  Two calls that differ in one argument
\* return different authorizations when that argument is the bucket, the key,
\* the date or the secret, when the methods differ in more than letter case,
\* when two headers dicts differ in their x-oss-* headers, or when two params
\* that are not strings differ in their allow-listed parameters.  They return
\* the same authorization when the methods differ in letter case only, when
\* two headers dicts have the same x-oss-* headers, and when two params of one
\* form, each a mapping, a sequence of pairs or a dict with a parameter
\* outside the allow-list, have the same allow-listed parameters in the same
\* order.  A change of process alone changes the authorization only for a
\* dict params with a parameter outside the allow-list and two or more inside.
C13_SignatureOfCanonicalInputs ==
    BothSigned =>
        LET c == calls[1]
            d == calls[2]
        IN /\ Differing(SignInputs \cup {"order"}) = {} => SameAuthorization
           /\ OnlyChange("method") => (SameAuthorization <=> Upper(c.method) = Upper(d.method))
           /\ (\E f \in {"bucket_name", "key", "date", "token"} : OnlyChange(f))
                => ~SameAuthorization
           /\ (OnlyChange("headers") /\ c.headers.form = "dict" /\ d.headers.form = "dict")
                => (SameAuthorization <=> OssPairs(c.headers) = OssPairs(d.headers))
           /\ (OnlyChange("params") /\ Itemized(c.params) /\ Itemized(d.params))
                => /\ AllowedPairs(c.params) # AllowedPairs(d.params) => ~SameAuthorization
                   /\ ( /\ c.params.form = d.params.form
                        /\ c.params.form = "dict"
                             => (Dropped(c.params) # {} /\ Dropped(d.params) # {})
                        /\ SelectSeq(c.params.items, LAMBDA e : e[1] \in subresource_key_set)
                             = SelectSeq(d.params.items, LAMBDA e : e[1] \in subresource_key_set) )
                        => SameAuthorization
           /\ (OnlyChange("order") /\ ~SameAuthorization)
                => /\ c.params.form = "dict" /\ Dropped(c.params) # {}
                   /\ Cardinality(AllowedPairs(c.params)) >= 2

C13_Witness ==
    /\ BothSigned /\ OnlyChange("params") /\ SameAuthorization
    /\ calls[1].params.form = "dict" /\ calls[2].params.form = "dict"
    /\ <<"part-number-marker", "1">> \in Range(calls[1].params.items)
    /\ <<"part-number-marker", "2">> \in Range(calls[2].params.items)

\* The query part of a signing string, and the parameter names of a query.
QueryOf(data) ==
    IF "?" \in Range(data)
    THEN SubSeq(data, (CHOOSE i \in DOMAIN data : data[i] = "?") + 1, Len(data))
    ELSE <<>>
NamesIn(text) == {text[i] : i \in {j \in DOMAIN text : j = 1 \/ text[j - 1] = "&"}}
InputNames(params) ==
    IF params.form = "str" THEN NamesIn(params.text) ELSE ItemKeys(params.items)

\* C14: whatever the form of params (string, dict, mapping, sequence of
\* pairs), the query part of the signing string holds exactly the parameters
\* of params whose names are in the allow-list.
C14_OnlyAllowListed ==
    \A i \in 1..Len(signed) :
        NamesIn(QueryOf(signed[i].authorization.signature.data))
            = InputNames(calls[i].params) \cap subresource_key_set

\* ------------------------------------------------ further claims on uploads
MultipartOps == OpsOf("init") \cup OpsOf("list") \cup OpsOf("part") \cup OpsOf("complete")

\* C23: once upload_file has a needs-upload response in hand, it takes the
\* single-shot path (one PUT at most, exactly one when the call succeeds, no
\* multipart request) when part_size <= 0 and the multipart path (no PUT)
\* when part_size > 0, whatever the response holds and whatever the size of
\* the source is.
C23_PathByPartSize ==
    (entry = "upload_file" /\ resps # <<>> /\ NeedsUpload(LastResp) /\ pc # "init_done")
        => IF part_size <= 0
           THEN /\ MultipartOps = {}
                /\ Cardinality(OpsOf("put")) <= 1
                /\ pc \in {"oss_token", "oss_put", "done"}
                /\ outcome = "ok" => Cardinality(OpsOf("put")) = 1
           ELSE /\ OpsOf("put") = {}
                /\ pc \in {"mp_start", "mp_init", "mp_parts", "mp_part_wait", "mp_complete", "done"}
                /\ outcome = "ok" => OpsOf("complete") # {}

C23_Witness ==
    /\ entry = "upload_file" /\ resps # <<>> /\ NeedsUpload(LastResp)
    /\ part_size = -1 /\ outcome = "ok" /\ Cardinality(OpsOf("put")) = 1
    /\ filesize > 0

\* C24: _oss_multipart_upload sends Complete at most once, as its last
\* request, after a part loop that ended on a short part with every earlier
\* request answered; a token, init, listing or part request that raises is
\* the last request of the call, its error is the outcome, and no Complete is
\* sent.
C24_CompleteOnceAfterLoop ==
    /\ Cardinality(OpsOf("complete")) <= 1
    /\ \A i \in OpsOf("complete") :
        /\ i = Len(oss) /\ inflight = 0
        /\ \A j \in 1..(i - 1) : oss[j].ans = "ok"
        /\ parts # <<>> /\ parts[Len(parts)].Size < part_size
        /\ oss[i].manifest = parts
    /\ \A j \in 1..Len(oss) :
        (oss[j].op \in {"token", "init", "list", "part"} /\ oss[j].ans = "failed")
            => /\ j = Len(oss) /\ pc = "done"
               /\ outcome \in {"transport", "NameError"}
               /\ OpsOf("complete") = {}

C24_Witness ==
    /\ entry = "_oss_multipart_upload" /\ pc = "done" /\ outcome = "transport"
    /\ Len(PartOps) = 2 /\ oss[Len(oss)].op = "part" /\ oss[Len(oss)].ans = "failed"
    /\ OpsOf("complete") = {}

\* Number of listed parts in front of the first one whose Size is not part_size.
AcceptedCount == IF Mismatches = {} THEN Len(listing) ELSE FirstMismatch - 1

SessionOps == {i \in 1..Len(oss) : oss[i].op \in {"list", "part", "complete"}}

\* C26: without an upload id _oss_multipart_upload requests one session (one
\* init at most, exactly one before any part upload) and every part upload
\* and the Complete carry the id it returned; with an upload id it sends no
\* init and the listing, every part upload and the Complete carry that id.
C26_OneSessionId ==
    IF upload_id = SUPPLIED_ID
    THEN /\ OpsOf("init") = {}
         /\ \A i \in SessionOps : oss[i].id = SUPPLIED_ID
    ELSE /\ Cardinality(OpsOf("init")) <= 1
         /\ OpsOf("list") = {}
         /\ \A i \in SessionOps :
                /\ oss[i].id = FRESH_ID
                /\ \E j \in OpsOf("init") : j < i /\ oss[j].ans = "ok"

C26_Witness ==
    /\ entry = "_oss_multipart_upload" /\ upload_id = FRESH_ID
    /\ pc = "done" /\ outcome = "ok"
    /\ Len(PartOps) = 2 /\ Cardinality(OpsOf("init")) = 1

\* C28: with upload_directly set, upload_file sends no negotiation request,
\* reads no range for a challenge and leaves the digest and the size as they
\* were passed; every request it sends belongs to the direct (sample) upload,
\* whatever the kind and the size of the source.
C28_DirectSkipsNegotiation ==
    [][(entry = "upload_file" /\ upload_directly)
          => /\ negLog' = <<>> /\ resps' = <<>> /\ rangeReads' = <<>>
             /\ file_sha1' = file_sha1 /\ filesize' = filesize
             /\ pc' \in {"sample_init", "sample", "done"}
             /\ \A i \in 1..Len(oss') : oss'[i].op \in {"sample_init", "sample"}]_vars

C28_Witness ==
    /\ entry = "upload_file" /\ upload_directly
    /\ file.kind = "bytes" /\ file.len >= 1 /\ file_sha1 = "none"
    /\ pc = "done" /\ outcome = "ok"
    /\ OpsOf("sample") # {} /\ negLog = <<>>

\* C29: _oss_multipart_upload_cancel sends one DELETE for the upload id and
\* returns true when the response is any 2xx or a 404, false for every other
\* status.
C29_CancelReport ==
    (entry = "_oss_multipart_upload_cancel" /\ pc = "done")
        => /\ Len(oss) = 1 /\ oss[1].op = "cancel" /\ oss[1].id = upload_id
           /\ outcome = "ok"
                => /\ oss[1].ans = "ok"
                   /\ result.cancelled
                        <=> (result.status_code \in 200..299 \/ result.status_code = 404)

C29_Witness ==
    /\ entry = "_oss_multipart_upload_cancel" /\ pc = "done" /\ outcome = "ok"
    /\ result.status_code = 404 /\ result.cancelled

\* The listing requests in the order they were sent.
ListRequests == SelectSeq(oss, LAMBDA q : q.op = "list")

RECURSIVE PagesOf(_)
PagesOf(qs) ==
    IF qs = <<>> THEN <<>>
    ELSE (IF Head(qs).ans = "ok" THEN Page(Head(qs).n) ELSE <<>>) \o PagesOf(Tail(qs))

\* C27: the first listing request carries no part-number-marker; a further
\* one is sent only after a page whose IsTruncated is not "false" and carries
\* that page's NextPartNumberMarker, so none follows a page with IsTruncated =
\* "false".  A consumer that takes every part has received the parts of the
\* pages answered so far in the backend's order, and the iterator is exhausted
\* only after a page with IsTruncated = "false".  Under takewhile no page is
\* requested behind a part whose Size is not part_size.
C27_PagedListing ==
    LET L == ListRequests
    IN entry \in {"_oss_multipart_part_iter", "_oss_multipart_upload"}
        => /\ L # <<>> => L[1].n = 0
           /\ \A j \in 2..Len(L) :
                /\ L[j - 1].ans = "ok"
                /\ IsTruncated(L[j - 1].n) # "false"
                /\ L[j].n = NextPartNumberMarker(L[j - 1].n)
           /\ entry = "_oss_multipart_part_iter"
                => /\ parts = PagesOf(L)
                   /\ (pc = "done" /\ outcome = "ok")
                        => /\ IsTruncated(L[Len(L)].n) = "false"
                           /\ parts = listing
           /\ entry = "_oss_multipart_upload"
                => /\ \A j \in 1..Len(L) : L[j].n <= AcceptedCount
                   /\ listed = "ok"
                        => \/ IsTruncated(L[Len(L)].n) = "false"
                           \/ AcceptedCount < NextPartNumberMarker(L[Len(L)].n)

C27_Witness ==
    /\ entry = "_oss_multipart_part_iter" /\ pc = "done" /\ outcome = "ok"
    /\ page_len = 1 /\ Len(listing) = 2 /\ Len(ListRequests) = 2
    /\ listing[1].Size # part_size
    /\ ListRequests[2].n = 1 /\ parts = listing

\* The background loop is between its test and its sleep.
LoopPolling == lpc \in {"test", "call", "wait", "sleep"}

C21_AsyncStepsAreBlockingSteps == [][BlockingNext]_vars

\* C22: the sha1 upload_file computes and sends in the negotiation request is
\* the upper-cased hex SHA-1 of the bytes the source holds (for a reader: from
\* its position on), so a buffer, a file path and a reader that hold the same
\* bytes send the same value.
C22_DigestOfHeldBytes ==
    \A i \in 1..Len(dsent) :
        ~dsent[i].given => dsent[i] = Digest(FALSE, ReadAll(dfile), "upper")

C22_Witness ==
    /\ dfile.kind = "reader" /\ dfile.seekable /\ dfile.pos = 1 /\ Len(dfile.bytes) = 3
    /\ dsize = 0 /\ dout = "sent"
    /\ dsent = <<Digest(FALSE, Tail(dfile.bytes), "upper")>>

\* The status responses that report a domain error of the job.
DomainErrors ==
    {e \in UNION {{[cls |-> c, resp |-> r] : r \in StatusResponses(c)} : c \in Classes} :
        e.resp.net /\ e.resp.state /\ Reports(e.cls, e.resp) = "error"}

C33_PushFutureOutcome ==
    subm # <<>> =>
        IF ~(subm[1].net /\ subm[1].state)
        THEN cpc = "raised" /\ threads = 0 /\ reqs = 0 /\ future = NewFuture
        ELSE IF subm[1].unzip_status = 4
        THEN cpc = "returned None" /\ threads = 0 /\ reqs = 0 /\ future = NewFuture
        ELSE /\ cpc \in {"has", "dropped", "finalized"}
             /\ threads = 1
             /\ (handled = <<>> /\ stops = 0) => future.state = "RUNNING"

UnseekableUndigested ==
    /\ entry = "upload_file"
    /\ file.kind = "reader" /\ ~file.seekable
    /\ file_sha1 = "none"
    /\ LET size == IF filesize < 0 THEN InferredSize(file) ELSE filesize
       IN ~(0 < size /\ size < MB)

\* C35: once upload_file has looked at such a source, no negotiation request
\* has been made, no byte has been read from the reader, and the reader is
\* with the direct upload (its first request is the one for the upload form).
C35_UnseekableGoesDirect ==
    (UnseekableUndigested /\ pc # "start")
        => /\ negLog = <<>>
           /\ file.pos = curpos
           /\ \/ pc = "sample_init"
              \/ oss # <<>> /\ oss[1].op = "sample_init"

\* The source of upload_file is a seekable reader that was not read whole
\* before the negotiation.
SeekableReader == entry = "upload_file" /\ file.kind = "reader" /\ file.seekable

\* The call is between the look at the source and the first read of the data
\* upload, or has ended without a request to the object store.
BeforeDataUpload ==
    \/ pc \in {"init", "range", "init_done", "oss_token", "oss_put", "mp_start"}
    \/ pc = "done" /\ oss = <<>>

\* C36: for a seekable reader the lazy digest and the range read, also when
\* the read raises, leave the reader at the position it had when upload_file
\* was called, so the data upload starts from that position.
C36_ReaderPositionKept ==
    (SeekableReader /\ BeforeDataUpload) => file.pos = curpos

\* The digest was computed from the reader (content past curpos was read), a
\* range was read, and the call has come to the data upload.
C36_Witness ==
    /\ SeekableReader /\ ~async_
    /\ file.len > curpos /\ curpos > 0
    /\ rangeReads # <<>>
    /\ pc \in {"oss_token", "mp_start"}
    /\ file.pos = curpos

\* A read of the reader raised during the negotiation.
C36_WitnessRaise ==
    SeekableReader /\ pc = "done" /\ outcome = "read error" /\ negLog # <<>> /\ file.pos = curpos

\* ----------------------------------------------- claims on the FUSE adapter
Unfinished(path) ==
    {t \in DOMAIN tasks : tasks[t].path = path /\ tasks[t].state # "finished"}

\* C37: for every normalized path at most one task is unfinished; it is the
\* task the pool holds for the path, so every caller that asks for the path
\* meanwhile gets this task; and a task whose done callback has run is no
\* longer in the pool.
C37_OneTaskPerPath ==
    /\ \A path \in NormPaths : Cardinality(Unfinished(path)) <= 1
    /\ \A t \in DOMAIN tasks :
        /\ tasks[t].path \in NormPaths
        /\ tasks[t].state # "finished" => task_pool[tasks[t].path] = t
        /\ tasks[t].cb = "ran" => task_pool[tasks[t].path] # t
    /\ \A c, d \in Callers :
        (/\ wrapper[c].pc = "return" /\ wrapper[d].pc = "return"
         /\ wrapper[c].path = wrapper[d].path
         /\ wrapper[c].future \in Unfinished(wrapper[c].path)
         /\ wrapper[d].future \in Unfinished(wrapper[d].path))
            => wrapper[c].future = wrapper[d].future

\* Two callers asked for the two spellings of one name while its task was
\* unfinished and hold the same task.
C37_Witness ==
    /\ wrapper[1].pc = "return" /\ wrapper[2].pc = "return"
    /\ wrapper[1].raw # wrapper[2].raw
    /\ wrapper[1].future = wrapper[2].future
    /\ wrapper[1].future \in Unfinished(wrapper[1].path)

\* A finished task was removed and a later task for the same path is pending.
C37_WitnessResubmitted ==
    \E t, u \in DOMAIN tasks :
        /\ t < u /\ tasks[t].path = tasks[u].path
        /\ tasks[t].cb = "ran" /\ task_pool[tasks[u].path] = u /\ tasks[u].state = "running"

\* C38: a read with a handle returns content[offset : offset+size], cut at
\* the end of the content.
C38_ReadReturnsSlice ==
    \A r \in Readers :
        (reader[r].pc = "returned" /\ reader[r].fh # 0)
            => reader[r].ret = Returned(Slice(Content, reader[r].offset,
                                              reader[r].offset + reader[r].size))

\* C39: once release(fh) and close() have completed, every remote file that
\* read opened for the handle is closed, and a released handle has no entry
\* in the table.
C39_OpenedFilesClosed ==
    /\ \A fh \in released : ~fh_to_file[fh].present
    /\ closed_all =>
          \A f \in DOMAIN rfiles : rfiles[f].fh \in released => rfiles[f].closed
====
